---- MODULE Spec2Model ----
(***************************************************************************)
(* Interactive terminal sessions of PosixTerminalProvider                  *)
(* (src/PosixTerminalProvider.ts): the id counter, the map of live         *)
(* sessions, the session objects captured by the pty callbacks, and the    *)
(* pseudo-terminal processes that drive those callbacks.                   *)
(*                                                                         *)
(* Strings are sequences of one-character strings.  An optional value      *)
(* (exitCode?: number, SessionStatus | null) is a sequence of length 0     *)
(* or 1.                                                                   *)
(***************************************************************************)
EXTENDS Integers, Sequences, FiniteSets, TLC

\* ------------------------------------------------------------------ bounds
\* startInteractiveSession calls made in one behaviour.
MaxSessions == 2
\* Data chunks the pseudo-terminals deliver in one behaviour (all sessions).
MaxData == 2
\* sendInput writes the processes accept in one behaviour (all sessions).
MaxWrites == 1
\* Ticks of the clock in one behaviour (one tick is one second).
MaxTime == 1
\* The lines written to all processes together by a caller that sends several.
MaxLines == 2
\* collectOutput calls one caller has in flight on one session.
MaxFlights == 2
\* Calls made on the filesystem provider in one behaviour.
MaxTasks == 2

\* ----------------------------------------------------------------- strings
DigitChars == <<"0", "1", "2", "3", "4", "5", "6", "7", "8", "9">>

RECURSIVE ToDecimal(_)
\* String(n) of a non-negative integer, as the template literal renders it.
ToDecimal(n) ==
    IF n < 10 THEN <<DigitChars[n + 1]>>
    ELSE ToDecimal(n \div 10) \o <<DigitChars[(n % 10) + 1]>>

TermPrefix == <<"t", "e", "r", "m", "-">>

\* `term-${n}`
TermId(n) == TermPrefix \o ToDecimal(n)

Min(a, b) == IF a < b THEN a ELSE b
Max(a, b) == IF a > b THEN a ELSE b

\* str.substring(start - 1): one character too many.
Substring_OffByOne(str, start) ==
    SubSeq(str, Max(0, Min(start - 1, Len(str))) + 1, Len(str))

\* str.slice(start): a negative start counts from the end of the string.
Substring_Slice(str, start) ==
    SubSeq(str, (IF start < 0 THEN Max(0, Len(str) + start)
                 ELSE Min(start, Len(str))) + 1, Len(str))

\* String.prototype.substring(start) with one argument: start is clamped to
\* [0, length] and the rest of the string is returned.
Substring(str, start) ==
    SubSeq(str, Max(0, Min(start, Len(str))) + 1, Len(str))

\* ------------------------------------------------------------------- paths
\* Commands, arguments and paths are strings written as sequences of tokens;
\* in a path the tokens are the separator "/" and the names between.
Sep == "/"

\* path.isAbsolute(p)
IsAbsolute(p) == p # << >> /\ p[1] = Sep

RECURSIVE Segments(_)
\* The names of a path, in order (empty segments dropped).
Segments(p) ==
    IF p = << >> THEN << >>
    ELSE IF Head(p) = Sep THEN Segments(Tail(p))
    ELSE <<Head(p)>> \o Segments(Tail(p))

RECURSIVE NormalizeSegments(_, _, _)
\* normalizeString of node:path: "." is dropped, ".." removes the name before
\* it; at the top, ".." is dropped in an absolute path and kept in a relative
\* one.
NormalizeSegments(segs, abs, done) ==
    IF segs = << >> THEN done
    ELSE IF Head(segs) = "." THEN NormalizeSegments(Tail(segs), abs, done)
    ELSE IF Head(segs) = ".."
    THEN IF done # << >> /\ done[Len(done)] # ".."
         THEN NormalizeSegments(Tail(segs), abs, SubSeq(done, 1, Len(done) - 1))
         ELSE IF abs THEN NormalizeSegments(Tail(segs), abs, done)
         ELSE NormalizeSegments(Tail(segs), abs, Append(done, ".."))
    ELSE NormalizeSegments(Tail(segs), abs, Append(done, Head(segs)))

RECURSIVE JoinSegments(_)
\* The names joined by the separator.
JoinSegments(segs) ==
    IF Len(segs) <= 1 THEN segs
    ELSE <<Head(segs), Sep>> \o JoinSegments(Tail(segs))

AbsolutePath(segs) == <<Sep>> \o JoinSegments(segs)

\* process.cwd()
ProcessCwd == <<Sep, "home">>

\* path.resolve(a, b): b when it is absolute, else b below a (below
\* process.cwd() when a is relative too), normalized.
PathResolve(a, b) ==
    IF IsAbsolute(b)
    THEN AbsolutePath(NormalizeSegments(Segments(b), TRUE, << >>))
    ELSE IF IsAbsolute(a)
    THEN AbsolutePath(NormalizeSegments(Segments(a) \o Segments(b), TRUE, << >>))
    ELSE AbsolutePath(NormalizeSegments(Segments(ProcessCwd) \o Segments(a) \o Segments(b),
                                        TRUE, << >>))

\* Number of leading names two paths share.
CommonLength(f, t) ==
    CHOOSE k \in 0..Min(Len(f), Len(t)) :
        /\ SubSeq(f, 1, k) = SubSeq(t, 1, k)
        /\ k < Min(Len(f), Len(t)) => f[k + 1] # t[k + 1]

\* path.relative(from, to): both resolved, one ".." for each name of `from`
\* below the common part, then the rest of `to`.
PathRelative(from, to) ==
    LET f == Segments(PathResolve(from, << >>))
        t == Segments(PathResolve(to, << >>))
        k == CommonLength(f, t)
    IN  JoinSegments([i \in 1..(Len(f) - k) |-> ".."] \o SubSeq(t, k + 1, Len(t)))

\* ------------------------------------------------------------ input domains
\* Ids callers pass: every id the counter can hand out in a behaviour, which
\* at the time of a call may be live, terminated or not yet allocated.
IdUniverse == {TermId(n) : n \in 1..MaxSessions}
\* What a shell prints, character by character; a pseudo-terminal delivers
\* it to onData in order, one chunk at a time.
ProcessOutput == <<"a", "b", "c", "d", "e", "f", "g", "h">>
\* Exit codes a process reports to onExit.
ExitCodes == {0, 1}
\* Text a caller passes to sendInput.
Inputs == {<<"l", "s">>}
\* The inputs of a caller that sends several lines.
Lines == {<<"l", "s">>, <<"p">>}
\* The fromPosition values callers pass: every position of the longest
\* buffer, one below 0 and one past the end.
Positions == -1..(MaxData + 1)

\* The waitOptions callers pass, in seconds: no wait at all, a settle time
\* below the cap, and a settle time above the cap.
WaitOptions ==
    {[minInterval |-> 0, settleInterval |-> 0, maxInterval |-> 1],
     [minInterval |-> 1, settleInterval |-> 1, maxInterval |-> 2],
     [minInterval |-> 1, settleInterval |-> 2, maxInterval |-> 1]}

\* options.timeoutSeconds as callers pass it: negative, zero and positive.
TimeoutSeconds == {-1, 0, 1}
\* options.env as callers pass it: absent or empty, one variable, and all of
\* TERM, NO_COLOR and a variable the host also sets.
CallerEnvs ==
    {<< >>,
     [TERM |-> "xterm"],
     [NO_COLOR |-> "0", FOO |-> "caller"],
     [TERM |-> "xterm", NO_COLOR |-> "0", FOO |-> "caller"]}
\* process.env of the host: with and without TERM and NO_COLOR.
HostEnv == [PATH |-> "/bin", FOO |-> "host"]
ProcessEnvs ==
    {HostEnv,
     [PATH |-> "/bin", FOO |-> "host", TERM |-> "vt100", NO_COLOR |-> "host"]}
\* options.input as callers pass it: absent, or a text.
CallerInputs == {<< >>, <<"y">>}
\* options.workingDirectory as callers pass it: absent, a relative path, and
\* a value that is not a string.
WorkingDirectories ==
    {<< >>, <<[type |-> "string", value |-> <<"sub">>]>>,
     <<[type |-> "number", value |-> <<"42">>]>>}
\* What a command prints on stdout and stderr together.
CommandOutputs == {<< >>, <<" ", "o", "k", "\n">>}

Undefined == <<>>
Null == <<>>
Some(v) == <<v>>

\* The options a provider is constructed with: the root directory, and
\* isolation unset or one of the values of the schema.
ProviderOptions ==
    [workingDirectory : {<<Sep, "work">>},
     isolation : {Undefined, Some("auto"), Some("none"), Some("bubblewrap")}]
\* Commands and argument lists callers pass to executeCommand, and scripts
\* they pass to runScript.
Commands == {<<"ls">>, <<"echo">>}
ArgLists == {<< >>, << <<"-l">>, <<"a">> >>}
Scripts == {<<"echo hi">>}

VARIABLES
    nextId,     \* this.nextId
    sessions,   \* keys of this.sessions (every key maps to the object of that id)
    heap,       \* id -> the InteractiveTerminalSession object created for it
    pty,        \* id -> the pseudo-terminal process spawned for it
    pending,    \* startInteractiveSession calls inside their 100 ms wait, oldest first
    returned,   \* ids startInteractiveSession has returned, in order
    logCalls,   \* whether ret is kept (fixed from the first state on)
    ret,        \* the call made in the last step and what the caller got back
    marked,     \* a caller making two collectOutput calls with one fromPosition
    chain,      \* a caller reading one session with the cursor protocol
    now,        \* Date.now(), in ticks
    timed,      \* a caller's collectOutput call with the times it was made and returned
    exec,       \* the last executeCommand or runScript call and its subprocess
    provider,   \* the PosixTerminalProvider instance: options, isolationLevel
    disk,       \* the files and directories of the host
    tasks       \* the calls made on the PosixFileSystemProvider

\* The provider, its session objects and their processes.
prog == <<nextId, sessions, heap, pty, pending, returned>>

vars == <<nextId, sessions, heap, pty, pending, returned, logCalls, ret, marked, chain,
          now, timed, exec, provider, disk, tasks>>

\* The part of the state the terminal provider works on.
terminal == <<nextId, sessions, heap, pty, pending, returned, logCalls, ret, marked,
              chain, now, timed, exec, provider>>

\* ------------------------------------------------------------------- state
\* A provider constructed with isolation: 'none' on an existing root.  probes
\* counts the `which bwrap` runs; bwrapOnHost: the host has the tool.
PlainProvider ==
    [state |-> "ready",
     options |-> Some([workingDirectory |-> <<Sep, "work">>, isolation |-> Some("none")]),
     isolationLevel |-> Some("none"), probes |-> 0, bwrapOnHost |-> FALSE]

\* No provider has been constructed.
NoProvider ==
    [state |-> "unbuilt", options |-> Undefined, isolationLevel |-> Undefined,
     probes |-> 0, bwrapOnHost |-> FALSE]

\* The instance exists and its owner holds it.
Ready == provider.state = "ready"

\* private sessions = new Map(); private nextId = 1;
\* No session object, no process and no call yet.
NoSessions ==
    /\ nextId = 1
    /\ sessions = {}
    /\ heap = << >>
    /\ pty = << >>
    /\ pending = << >>
    /\ returned = << >>
    /\ ret = << >>
    /\ marked = << >>
    /\ chain = << >>
    /\ now = 0
    /\ timed = << >>
    /\ exec = << >>

\* The root directory of the providers and the directory next to it, and
\* nothing else: no file, no call on the filesystem provider.
EmptyDisk == [files |-> << >>, dirs |-> {<<Sep, "work">>, <<Sep, "etc">>}]

Blank == NoSessions /\ disk = EmptyDisk /\ tasks = << >>

\* A constructed provider before its first call.
Fresh == Blank /\ provider = PlainProvider

RECURSIVE CountData(_)
\* Data chunks delivered so far, over the processes of `ids`.
CountData(ids) ==
    IF ids = {} THEN 0
    ELSE LET i == CHOOSE x \in ids : TRUE
         IN  Len(pty[i].delivered) + CountData(ids \ {i})

\* The chunks the process of `id` can deliver next.
Chunks(id) ==
    IF id \in DOMAIN pty /\ Len(pty[id].delivered) < Len(ProcessOutput)
    THEN {<<ProcessOutput[Len(pty[id].delivered) + 1]>>}
    ELSE {}

RECURSIVE CountWritten(_)
\* Writes accepted so far, over the processes of `ids`.
CountWritten(ids) ==
    IF ids = {} THEN 0
    ELSE LET i == CHOOSE x \in ids : TRUE
         IN  Len(pty[i].written) + CountWritten(ids \ {i})

\* const session = {id, process, outputBuffer: '', lastReadPosition: 0,
\*                  startTime: Date.now(), lastOutputTime: Date.now()}
NewSession(id) ==
    [id |-> id, outputBuffer |-> <<>>, lastReadPosition |-> 0,
     startTime |-> now, lastOutputTime |-> now, exitCode |-> Undefined]

\* {...a, ...b}: the keys of both, b's value where both have the key.
Spread(a, b) == b @@ a

\* The forced values come before the caller's, as in runScript:
\* {...process.env, TERM, NO_COLOR, ...options.env}.
SessionEnv_CallerLast(processEnv, env) ==
    Spread(Spread(processEnv, [TERM |-> "dumb", NO_COLOR |-> "1"]), env)

\* env: {...process.env, ...options.env, TERM: 'dumb', NO_COLOR: '1'}
SessionEnv(processEnv, env) ==
    Spread(Spread(processEnv, env), [TERM |-> "dumb", NO_COLOR |-> "1"])

\* The process pty.spawn returns: running, nothing written, read or signalled.
\* late: data was delivered after the exit callback.
NewProcess(wrapped, cwd, processEnv, env) ==
    [exited |-> FALSE, code |-> Undefined, kills |-> 0,
     written |-> <<>>, delivered |-> <<>>, late |-> FALSE,
     command |-> wrapped.command, args |-> wrapped.args, cwd |-> cwd,
     processEnv |-> processEnv, callerEnv |-> env,
     env |-> SessionEnv(processEnv, env)]

\* -------------------------------------------------------------- constructor
\* Every configured value is probed, and 'bubblewrap' falls back to none.
resolveIsolation_ProbeAlways(options, found) ==
    IF options.isolation = Some("none") THEN [level |-> "none", probes |-> 0]
    ELSE [level |-> IF found THEN "bubblewrap" ELSE "none", probes |-> 1]

\* resolveIsolation(): 'none' and 'bubblewrap' as configured; for any other
\* value (auto, unset) execaSync('which', ['bwrap']) decides (found = FALSE:
\* it throws).
resolveIsolation(options, found) ==
    IF options.isolation = Some("none") THEN [level |-> "none", probes |-> 0]
    ELSE IF options.isolation = Some("bubblewrap") THEN [level |-> "bubblewrap", probes |-> 0]
    ELSE [level |-> IF found THEN "bubblewrap" ELSE "none", probes |-> 1]

\* The isolation level is resolved before the root directory is looked at.
constructor_ProbeFirst(options, exists, found) ==
    /\ provider.state = "unbuilt"
    /\ LET resolved == resolveIsolation(options, found) IN
       provider' = IF ~exists
                   THEN [state |-> "failed", options |-> Some(options),
                         isolationLevel |-> Undefined,
                         probes |-> provider.probes + resolved.probes,
                         bwrapOnHost |-> found]
                   ELSE [state |-> "ready", options |-> Some(options),
                         isolationLevel |-> Some(resolved.level),
                         probes |-> provider.probes + resolved.probes,
                         bwrapOnHost |-> found]

\* new PosixTerminalProvider(app, options): throws when the root directory
\* does not exist (exists = FALSE), else sets isolationLevel.
constructor(options, exists, found) ==
    /\ provider.state = "unbuilt"
    /\ LET resolved == resolveIsolation(options, found) IN
       provider' = IF ~exists
                   THEN [state |-> "failed", options |-> Some(options),
                         isolationLevel |-> Undefined, probes |-> provider.probes,
                         bwrapOnHost |-> found]
                   ELSE [state |-> "ready", options |-> Some(options),
                         isolationLevel |-> Some(resolved.level),
                         probes |-> provider.probes + resolved.probes,
                         bwrapOnHost |-> found]

\* The owner lets go of the provider (the application closes it or drops its
\* last reference).  The class has no close or dispose method: no code runs.
drop ==
    /\ Ready
    /\ provider' = [provider EXCEPT !.state = "dropped"]

\* getIsolationLevel()
GetIsolationLevel ==
    IF provider.isolationLevel = Some("bubblewrap") THEN "sandbox" ELSE "none"

\* getIsolationLevel() changes nothing.
getIsolationLevel ==
    /\ Ready
    /\ UNCHANGED provider

\* The arguments are left out of the sandboxed invocation.
wrapWithBubblewrap_NoArgs(command, args, cwd) ==
    IF provider.isolationLevel # Some("bubblewrap")
    THEN [command |-> command, args |-> args]
    ELSE [command |-> <<"bwrap">>,
          args |-> << <<"--ro-bind">>, <<Sep, "usr">>, <<Sep, "usr">>,
                      <<"--ro-bind">>, <<Sep, "lib">>, <<Sep, "lib">>,
                      <<"--ro-bind">>, <<Sep, "lib64">>, <<Sep, "lib64">>,
                      <<"--ro-bind">>, <<Sep, "bin">>, <<Sep, "bin">>,
                      <<"--ro-bind">>, <<Sep, "sbin">>, <<Sep, "sbin">>,
                      <<"--ro-bind">>, <<Sep, "etc">>, <<Sep, "etc">>,
                      <<"--proc">>, <<Sep, "proc">>,
                      <<"--dev">>, <<Sep, "dev">>,
                      <<"--tmpfs">>, <<Sep, "tmp">>,
                      <<"--bind">>, cwd, cwd,
                      <<"--chdir">>, cwd,
                      <<"--unshare-all">>,
                      <<"--share-net">>,
                      <<"--die-with-parent">>,
                      command >>]

\* wrapWithBubblewrap(command, args, cwd)
wrapWithBubblewrap(command, args, cwd) ==
    IF provider.isolationLevel # Some("bubblewrap")
    THEN [command |-> command, args |-> args]
    ELSE [command |-> <<"bwrap">>,
          args |-> << <<"--ro-bind">>, <<Sep, "usr">>, <<Sep, "usr">>,
                      <<"--ro-bind">>, <<Sep, "lib">>, <<Sep, "lib">>,
                      <<"--ro-bind">>, <<Sep, "lib64">>, <<Sep, "lib64">>,
                      <<"--ro-bind">>, <<Sep, "bin">>, <<Sep, "bin">>,
                      <<"--ro-bind">>, <<Sep, "sbin">>, <<Sep, "sbin">>,
                      <<"--ro-bind">>, <<Sep, "etc">>, <<Sep, "etc">>,
                      <<"--proc">>, <<Sep, "proc">>,
                      <<"--dev">>, <<Sep, "dev">>,
                      <<"--tmpfs">>, <<Sep, "tmp">>,
                      <<"--bind">>, cwd, cwd,
                      <<"--chdir">>, cwd,
                      <<"--unshare-all">>,
                      <<"--share-net">>,
                      <<"--die-with-parent">>,
                      command >> \o args]

\* process.env.SHELL || '/bin/bash'
Shell(processEnv) ==
    IF "SHELL" \in DOMAIN processEnv /\ processEnv.SHELL # << >>
    THEN processEnv.SHELL
    ELSE <<Sep, "bin", Sep, "bash">>

\* ------------------------------------------------- startInteractiveSession
\* A counter that hands out the lowest number no live session holds.
AllocateId_Reuse ==
    LET free == {n \in 1..nextId : TermId(n) \notin sessions}
        n == CHOOSE k \in free : \A j \in free : k <= j
    IN  [id |-> TermId(n), next |-> nextId + 1]

\* The counter is read for the id and is not advanced.
AllocateId_NoAdvance ==
    [id |-> TermId(nextId), next |-> nextId]

\* const id = `term-${this.nextId++}`
AllocateId ==
    [id |-> TermId(nextId), next |-> nextId + 1]

\* The shell is spawned as it is, whatever the isolation level.
SessionInvocation_Unwrapped ==
    [command |-> Shell(HostEnv), args |-> << >>]

\* const cwd = path.resolve(this.options.workingDirectory,
\*                          options.workingDirectory || "./");
SessionCwd ==
    PathResolve(provider.options[1].workingDirectory, <<".", Sep>>)

\* const shell = process.env.SHELL || '/bin/bash';
\* const wrapped = this.wrapWithBubblewrap(shell, [], cwd);
SessionInvocation ==
    wrapWithBubblewrap(Shell(HostEnv), << >>, SessionCwd)

\* The counter is advanced only once the pty is spawned.
startInteractiveSession_AdvanceLate(env, processEnv, spawnOk) ==
    /\ Ready
    /\ nextId <= MaxSessions
    /\ LET id == AllocateId.id
           wrapped == SessionInvocation
       IN
       /\ IF spawnOk
          THEN /\ nextId' = AllocateId.next
               /\ heap' = (id :> NewSession(id)) @@ heap
               /\ pty' = (id :> NewProcess(wrapped, SessionCwd, processEnv, env)) @@ pty
               /\ sessions' = sessions \cup {id}
               /\ pending' = Append(pending, id)
          ELSE UNCHANGED <<nextId, heap, pty, sessions, pending>>
    /\ UNCHANGED returned

\* The synchronous part of startInteractiveSession, up to the await: the id
\* is taken from the counter, the pty is spawned (spawnOk = FALSE: pty.spawn
\* throws and the call rejects), the session is built, the callbacks are
\* registered and the session is put in the map.
startInteractiveSession(env, processEnv, spawnOk) ==
    /\ Ready
    /\ nextId <= MaxSessions
    /\ LET id == AllocateId.id
           wrapped == SessionInvocation
       IN
       /\ nextId' = AllocateId.next
       /\ IF spawnOk
          THEN /\ heap' = (id :> NewSession(id)) @@ heap
               /\ pty' = (id :> NewProcess(wrapped, SessionCwd, processEnv, env)) @@ pty
               /\ sessions' = sessions \cup {id}
               /\ pending' = Append(pending, id)
          ELSE UNCHANGED <<heap, pty, sessions, pending>>
    /\ UNCHANGED returned

\* The 100 ms timer of the oldest waiting call fires (timers of equal delay
\* fire in the order they were set) and the call returns its id.
startInteractiveSessionReturn ==
    /\ pending # << >>
    /\ pending' = Tail(pending)
    /\ returned' = Append(returned, Head(pending))
    /\ UNCHANGED <<nextId, sessions, heap, pty>>

\* ------------------------------------------------------------ pty callbacks
\* session.outputBuffer = data + session.outputBuffer
onData_Prepend(id, data) ==
    /\ id \in DOMAIN heap
    /\ CountData(DOMAIN pty) < MaxData
    /\ heap' = [heap EXCEPT ![id].outputBuffer = data \o @,
                            ![id].lastOutputTime = now]
    /\ pty' = [pty EXCEPT ![id].delivered = Append(@, data),
                          ![id].late = @ \/ pty[id].exited]
    /\ UNCHANGED <<nextId, sessions, pending, returned>>

\* session.outputBuffer = data
onData_Overwrite(id, data) ==
    /\ id \in DOMAIN heap
    /\ CountData(DOMAIN pty) < MaxData
    /\ heap' = [heap EXCEPT ![id].outputBuffer = data,
                            ![id].lastOutputTime = now]
    /\ pty' = [pty EXCEPT ![id].delivered = Append(@, data),
                          ![id].late = @ \/ pty[id].exited]
    /\ UNCHANGED <<nextId, sessions, pending, returned>>

\* Data arriving marks the session running again: session.exitCode = undefined.
onData_Revive(id, data) ==
    /\ id \in DOMAIN heap
    /\ CountData(DOMAIN pty) < MaxData
    /\ heap' = [heap EXCEPT ![id].outputBuffer = @ \o data,
                            ![id].lastOutputTime = now,
                            ![id].exitCode = Undefined]
    /\ pty' = [pty EXCEPT ![id].delivered = Append(@, data),
                          ![id].late = @ \/ pty[id].exited]
    /\ UNCHANGED <<nextId, sessions, pending, returned>>

\* One buffer shared by all sessions: the data lands in every session object.
onData_Shared(id, data) ==
    /\ id \in DOMAIN heap
    /\ CountData(DOMAIN pty) < MaxData
    /\ heap' = [x \in DOMAIN heap |->
                   [heap[x] EXCEPT !.outputBuffer = @ \o data, !.lastOutputTime = now]]
    /\ pty' = [pty EXCEPT ![id].delivered = Append(@, data),
                          ![id].late = @ \/ pty[id].exited]
    /\ UNCHANGED <<nextId, sessions, pending, returned>>

\* Data that arrives after the exit callback is dropped.
onData_UntilExit(id, data) ==
    /\ id \in DOMAIN heap
    /\ CountData(DOMAIN pty) < MaxData
    /\ heap' = [heap EXCEPT ![id].outputBuffer =
                                IF heap[id].exitCode # Undefined THEN @ ELSE @ \o data,
                            ![id].lastOutputTime = now]
    /\ pty' = [pty EXCEPT ![id].delivered = Append(@, data),
                          ![id].late = @ \/ pty[id].exited]
    /\ UNCHANGED <<nextId, sessions, pending, returned>>

\* ptyProcess.onData: session.outputBuffer += data and session.lastOutputTime
\* = Date.now(), on the session object the callback captured, whether or not
\* the map still holds it and whether or not the exit callback has run.
onData(id, data) ==
    /\ id \in DOMAIN heap
    /\ CountData(DOMAIN pty) < MaxData
    /\ heap' = [heap EXCEPT ![id].outputBuffer = @ \o data,
                            ![id].lastOutputTime = now]
    /\ pty' = [pty EXCEPT ![id].delivered = Append(@, data),
                          ![id].late = @ \/ pty[id].exited]
    /\ UNCHANGED <<nextId, sessions, pending, returned>>

\* The exit callback also drops the session: this.sessions.delete(id).
onExit_AutoRemove(id, exitCode) ==
    /\ id \in DOMAIN heap
    /\ ~pty[id].exited
    /\ heap' = [heap EXCEPT ![id].exitCode = Some(exitCode)]
    /\ pty' = [pty EXCEPT ![id].exited = TRUE, ![id].code = Some(exitCode)]
    /\ sessions' = sessions \ {id}
    /\ UNCHANGED <<nextId, pending, returned>>

\* The exit callback puts the session object back into the map.
onExit_Reregister(id, exitCode) ==
    /\ id \in DOMAIN heap
    /\ ~pty[id].exited
    /\ heap' = [heap EXCEPT ![id].exitCode = Some(exitCode)]
    /\ pty' = [pty EXCEPT ![id].exited = TRUE, ![id].code = Some(exitCode)]
    /\ sessions' = sessions \cup {id}
    /\ UNCHANGED <<nextId, pending, returned>>

\* ptyProcess.onExit: session.exitCode = exitCode.  A process exits once.
onExit(id, exitCode) ==
    /\ id \in DOMAIN heap
    /\ ~pty[id].exited
    /\ heap' = [heap EXCEPT ![id].exitCode = Some(exitCode)]
    /\ pty' = [pty EXCEPT ![id].exited = TRUE, ![id].code = Some(exitCode)]
    /\ UNCHANGED <<nextId, sessions, pending, returned>>

\* ------------------------------------------------------------------- calls
\* this.sessions.get(sessionId): the session object, or undefined.
Get(sessionId) ==
    IF sessionId \in sessions THEN Some(heap[sessionId]) ELSE Undefined

\* Reads from the session's own lastReadPosition, not from the caller's.
CollectOutput_FromLastRead(session, fromPosition) ==
    [output |-> Substring(session.outputBuffer, session.lastReadPosition),
     newPosition |-> Len(session.outputBuffer),
     isComplete |-> session.exitCode # Undefined,
     exitCode |-> session.exitCode]

\* isComplete: !!session.exitCode, which is false for exit code 0.
CollectOutput_Truthy(session, fromPosition) ==
    [output |-> Substring(session.outputBuffer, fromPosition),
     newPosition |-> Len(session.outputBuffer),
     isComplete |-> session.exitCode # Undefined /\ session.exitCode # Some(0),
     exitCode |-> session.exitCode]

\* newPosition is the length of what is returned, not of the buffer.
CollectOutput_OutputLength(session, fromPosition) ==
    [output |-> Substring(session.outputBuffer, fromPosition),
     newPosition |-> Len(Substring(session.outputBuffer, fromPosition)),
     isComplete |-> session.exitCode # Undefined,
     exitCode |-> session.exitCode]

\* The value collectOutput returns for a session that was found: it reads
\* the buffer once, at once; waitOptions is not read.
CollectOutput(session, fromPosition) ==
    [output |-> Substring(session.outputBuffer, fromPosition),
     newPosition |-> Len(session.outputBuffer),
     isComplete |-> session.exitCode # Undefined,
     exitCode |-> session.exitCode]

\* The value getSessionStatus returns: null, or the status of the session.
GetSessionStatus(sessionId) ==
    LET session == Get(sessionId) IN
    IF session = Undefined THEN Null
    ELSE Some([id |-> session[1].id,
               running |-> session[1].exitCode = Undefined,
               startTime |-> session[1].startTime,
               outputLength |-> Len(session[1].outputBuffer),
               exitCode |-> session[1].exitCode])

\* collectOutput(sessionId, fromPosition, waitOptions) changes nothing.
collectOutput(sessionId, fromPosition) ==
    UNCHANGED prog

\* getSessionStatus(sessionId) changes nothing.
getSessionStatus(sessionId) ==
    UNCHANGED prog

\* Looks the session up among the objects ever created, not in the map: a
\* terminated session's process is still written to.
sendInput_NoLookup(sessionId, input) ==
    /\ IF sessionId \notin DOMAIN heap
       THEN UNCHANGED pty
       ELSE pty' = [pty EXCEPT ![sessionId].written = Append(@, input \o <<"\n">>)]
    /\ UNCHANGED <<nextId, sessions, heap, pending, returned>>

\* session.process.write(input): the input is written as it is.
sendInput_NoNewline(sessionId, input) ==
    /\ IF Get(sessionId) = Undefined
       THEN UNCHANGED pty
       ELSE pty' = [pty EXCEPT ![sessionId].written = Append(@, input)]
    /\ UNCHANGED <<nextId, sessions, heap, pending, returned>>

\* sendInput(sessionId, input): throws when the id is not in the map, else
\* session.process.write(`${input}\n`).
sendInput(sessionId, input) ==
    /\ IF Get(sessionId) = Undefined
       THEN UNCHANGED pty
       ELSE pty' = [pty EXCEPT ![sessionId].written = Append(@, input \o <<"\n">>)]
    /\ UNCHANGED <<nextId, sessions, heap, pending, returned>>

\* kill() and no delete: the session stays in the map.
terminateSession_NoDelete(sessionId, killOk) ==
    /\ IF Get(sessionId) # Undefined /\ killOk
       THEN pty' = [pty EXCEPT ![sessionId].kills = @ + 1]
       ELSE UNCHANGED pty
    /\ UNCHANGED <<nextId, sessions, heap, pending, returned>>

\* terminateSession(sessionId): returns when the id is not in the map; else
\* session.process.kill() and then this.sessions.delete(sessionId).  killOk =
\* FALSE: kill() throws, no signal is sent and the delete is not reached.
terminateSession(sessionId, killOk) ==
    /\ IF Get(sessionId) # Undefined /\ killOk
       THEN /\ pty' = [pty EXCEPT ![sessionId].kills = @ + 1]
            /\ sessions' = sessions \ {sessionId}
       ELSE UNCHANGED <<pty, sessions>>
    /\ UNCHANGED <<nextId, heap, pending, returned>>

\* ------------------------------------------------------ what a caller sees
\* A call as its caller sees it: the operation, its arguments, whether it
\* threw, whether the id was in the map, and the value returned (optional).
Call(op, id, from, threw, found, val) ==
    Some([op |-> op, id |-> id, from |-> from, threw |-> threw, found |-> found,
          val |-> val])

\* startInteractiveSession rejects when pty.spawn throws; else it is waiting.
startInteractiveSessionCall(spawnOk) ==
    Call("startInteractiveSession", AllocateId.id, 0, ~spawnOk, FALSE, <<>>)

\* return id
startInteractiveSessionReturnCall ==
    Call("startInteractiveSession.return", Head(pending), 0, FALSE, FALSE,
         Some(Head(pending)))

\* if (!session) throw new Error(`Session ${sessionId} not found`); return {...}
collectOutputCall(sessionId, fromPosition) ==
    LET session == Get(sessionId) IN
    IF session = Undefined
    THEN Call("collectOutput", sessionId, fromPosition, TRUE, FALSE, <<>>)
    ELSE Call("collectOutput", sessionId, fromPosition, FALSE, TRUE,
              Some(CollectOutput(session[1], fromPosition)))

\* if (!session) throw new Error(`Session ${sessionId} not found`)
sendInputCall(sessionId, input) ==
    Call("sendInput", sessionId, 0, Get(sessionId) = Undefined,
         Get(sessionId) # Undefined, <<>>)

\* if (!session) return; a kill() that throws rejects the call.
terminateSessionCall(sessionId, killOk) ==
    Call("terminateSession", sessionId, 0, Get(sessionId) # Undefined /\ ~killOk,
         Get(sessionId) # Undefined, <<>>)

\* return null, or the status
getSessionStatusCall(sessionId) ==
    Call("getSessionStatus", sessionId, 0, FALSE, Get(sessionId) # Undefined,
         GetSessionStatus(sessionId))

\* ------------------------------------------------------------ two readers
\* A caller makes a collectOutput call on a live session and keeps the
\* output, with the number of chunks delivered to that session so far.
firstRead(sessionId, fromPosition) ==
    /\ Get(sessionId) # Undefined
    /\ marked' = Some([id |-> sessionId, from |-> fromPosition,
                       first |-> CollectOutput(heap[sessionId], fromPosition).output,
                       firstData |-> Len(pty[sessionId].delivered),
                       second |-> << >>, secondData |-> 0])
    /\ UNCHANGED prog

\* The same caller calls collectOutput again, with the same session and the
\* same fromPosition, while the session is live.
secondRead ==
    /\ marked # << >>
    /\ Get(marked[1].id) # Undefined
    /\ marked' = Some([marked[1] EXCEPT
                       !.second = Some(CollectOutput(heap[marked[1].id], marked[1].from).output),
                       !.secondData = Len(pty[marked[1].id].delivered)])
    /\ UNCHANGED prog

\* A caller has up to MaxFlights collectOutput calls on one session in flight:
\* the body of collectOutput has no await, so each call computes its result
\* when it is made, and the caller sees the results later, after any
\* callbacks that ran in between.
flightRead(sessionId, fromPosition) ==
    /\ Get(sessionId) # Undefined
    /\ IF marked = << >> THEN TRUE ELSE marked[1].id = sessionId
    /\ IF marked = << >> THEN TRUE ELSE Len(marked[1].results) < MaxFlights
    /\ marked' = Some([id |-> sessionId,
                       results |->
                           Append(IF marked = << >> THEN << >> ELSE marked[1].results,
                                  [from |-> fromPosition,
                                   val |-> CollectOutput(heap[sessionId],
                                                         fromPosition)])])
    /\ UNCHANGED prog

\* A caller reads one live session as the test "should track output position
\* correctly" does: the first collectOutput from 0, each later one from the
\* newPosition of the one before, the outputs concatenated (acc).  whole is
\* what one collectOutput from 0 returns at the moment of the call; parts
\* counts the calls of the chain that returned new output, up to 2.
chainRead(sessionId, restart) ==
    /\ Get(sessionId) # Undefined
    /\ LET session == heap[sessionId]
           going == chain # << >> /\ chain[1].id = sessionId /\ ~restart
           from == IF going THEN chain[1].pos ELSE 0
           res == CollectOutput(session, from)
       IN  chain' = Some([id |-> sessionId,
                          pos |-> res.newPosition,
                          acc |-> (IF going THEN chain[1].acc ELSE << >>) \o res.output,
                          parts |-> Min((IF going THEN chain[1].parts ELSE 0)
                                        + (IF res.output = << >> THEN 0 ELSE 1), 2),
                          whole |-> CollectOutput(session, 0).output])
    /\ UNCHANGED prog

\* ------------------------------------------------ executeCommand, runScript
Whitespace == {" ", "\n", "\t"}

RECURSIVE TrimStart(_)
TrimStart(str) ==
    IF str # << >> /\ Head(str) \in Whitespace THEN TrimStart(Tail(str)) ELSE str

RECURSIVE TrimEnd(_)
TrimEnd(str) ==
    IF str # << >> /\ str[Len(str)] \in Whitespace
    THEN TrimEnd(SubSeq(str, 1, Len(str) - 1))
    ELSE str

\* String.prototype.trim(): leading and trailing whitespace removed.
Trim(str) == TrimEnd(TrimStart(str))

\* env: {...process.env, ...env}
ExecuteCommandEnv(processEnv, env) == Spread(processEnv, env)

\* The forced values spread last: {...process.env, ...env, TERM, NO_COLOR}.
RunScriptEnv_ForcedLast(processEnv, env) ==
    Spread(Spread(processEnv, env), [TERM |-> "dumb", NO_COLOR |-> "1"])

\* env: {...process.env, TERM: 'dumb', NO_COLOR: '1', ...env}
RunScriptEnv(processEnv, env) ==
    Spread(Spread(processEnv, [TERM |-> "dumb", NO_COLOR |-> "1"]), env)

\* The options object executeCommand and runScript pass to execa: the merged
\* environment, timeout: timeoutSeconds * 1000 and stdin: "ignore" (no input
\* stream, written as an absent stdin); options.input is not read.
ExecaOptions(method, options, processEnv) ==
    [env |-> IF method = "runScript"
             THEN RunScriptEnv(processEnv, options.env)
             ELSE ExecuteCommandEnv(processEnv, options.env),
     timeout |-> options.timeoutSeconds * 1000,
     stdin |-> Undefined]

\* What the awaited execa call settles with: a result (threw = FALSE), an
\* ExecaError, or another error.
Outcome(threw, isExecaError, timedOut, exitCode, all) ==
    [threw |-> threw, isExecaError |-> isExecaError, timedOut |-> timedOut,
     exitCode |-> exitCode, all |-> all]

\* Every ExecaError that did not time out is reported as a bad exit code.
Classify_NoExitCodeCheck(outcome) ==
    IF ~outcome.threw
    THEN [status |-> "success",
          output |-> Some(IF outcome.all = Undefined THEN << >> ELSE Trim(outcome.all[1])),
          exitCode |-> Undefined, error |-> FALSE]
    ELSE IF outcome.isExecaError /\ outcome.timedOut
    THEN [status |-> "timeout", output |-> Undefined, exitCode |-> Undefined,
          error |-> FALSE]
    ELSE IF outcome.isExecaError
    THEN [status |-> "badExitCode",
          output |-> Some(IF outcome.all = Undefined THEN << >> ELSE outcome.all[1]),
          exitCode |-> outcome.exitCode, error |-> FALSE]
    ELSE [status |-> "unknownError", output |-> Undefined, exitCode |-> Undefined,
          error |-> TRUE]

\* The exit code is looked at before the timedOut flag.
Classify_ExitCodeFirst(outcome) ==
    IF ~outcome.threw
    THEN [status |-> "success",
          output |-> Some(IF outcome.all = Undefined THEN << >> ELSE Trim(outcome.all[1])),
          exitCode |-> Undefined, error |-> FALSE]
    ELSE IF outcome.isExecaError /\ outcome.exitCode # Undefined
    THEN [status |-> "badExitCode",
          output |-> Some(IF outcome.all = Undefined THEN << >> ELSE outcome.all[1]),
          exitCode |-> outcome.exitCode, error |-> FALSE]
    ELSE IF outcome.isExecaError /\ outcome.timedOut
    THEN [status |-> "timeout", output |-> Undefined, exitCode |-> Undefined,
          error |-> FALSE]
    ELSE [status |-> "unknownError", output |-> Undefined, exitCode |-> Undefined,
          error |-> TRUE]

\* The ExecuteCommandResult the try/catch makes of what execa settled with.
Classify(outcome) ==
    IF ~outcome.threw
    THEN [status |-> "success",
          output |-> Some(IF outcome.all = Undefined THEN << >> ELSE Trim(outcome.all[1])),
          exitCode |-> Undefined, error |-> FALSE]
    ELSE IF outcome.isExecaError /\ outcome.timedOut
    THEN [status |-> "timeout", output |-> Undefined, exitCode |-> Undefined,
          error |-> FALSE]
    ELSE IF outcome.isExecaError /\ outcome.exitCode # Undefined
    THEN [status |-> "badExitCode",
          output |-> Some(IF outcome.all = Undefined THEN << >> ELSE outcome.all[1]),
          exitCode |-> outcome.exitCode, error |-> FALSE]
    ELSE [status |-> "unknownError", output |-> Undefined, exitCode |-> Undefined,
          error |-> TRUE]

\* executeCommand and runScript keep nothing between calls (they read only
\* this.options and this.isolationLevel), so a behaviour follows one call.
Idle == exec = << >>

\* The subprocess execa spawns: its environment and input stream are those of
\* the options; printed is what it writes to stdout and stderr.
Subprocess(wrapped, cwd, execaOptions, printed) ==
    [running |-> TRUE, command |-> wrapped.command, args |-> wrapped.args,
     cwd |-> cwd, env |-> execaOptions.env, stdin |-> execaOptions.stdin,
     printed |-> printed, exitCode |-> Undefined, timedOut |-> FALSE]

\* const {workingDirectory = "./"} = options;
\* path.resolve(this.options.workingDirectory, workingDirectory)
Cwd(workingDirectory) ==
    PathResolve(provider.options[1].workingDirectory,
                IF workingDirectory = Undefined THEN <<".", Sep>>
                ELSE workingDirectory[1].value)

\* The body of executeCommand and of runScript up to the await.  Before the
\* try block: path.resolve throws a TypeError for a workingDirectory that is
\* not a string, and runScript logs (logOk = FALSE: serviceOutput throws);
\* either rejects the call.  Inside the try block: execa throws a TypeError
\* for a negative timeout, and settles with an ExecaError without exit code
\* when the spawn fails (spawnOk = FALSE); the catch block returns at once.
Begin(method, command, args, options, processEnv, logOk, spawnOk, printed) ==
    LET resolved == options.workingDirectory = Undefined
                    \/ options.workingDirectory[1].type = "string"
        cwd == Cwd(options.workingDirectory)
        wrapped == wrapWithBubblewrap(command, args, cwd)
        execaOptions == ExecaOptions(method, options, processEnv)
        call == [method |-> method, command |-> command, args |-> args,
                 options |-> options, processEnv |-> processEnv,
                 startedAt |-> now,
                 returnedAt |-> now, phase |-> "rejected", execa |-> Undefined,
                 proc |-> Undefined, outcome |-> Undefined, result |-> Undefined]
        failed == IF execaOptions.timeout < 0
                  THEN Outcome(TRUE, FALSE, FALSE, Undefined, Undefined)
                  ELSE Outcome(TRUE, TRUE, FALSE, Undefined, Undefined)
    IN  /\ Ready
        /\ Idle
        /\ exec' = Some(
             IF ~resolved \/ ~logOk THEN call
             ELSE IF execaOptions.timeout < 0 \/ ~spawnOk
             THEN [call EXCEPT !.phase = "returned", !.execa = Some(execaOptions),
                               !.outcome = Some(failed), !.result = Some(Classify(failed))]
             ELSE [call EXCEPT !.phase = "running", !.execa = Some(execaOptions),
                               !.proc = Some(Subprocess(wrapped, cwd, execaOptions,
                                                        printed))])

\* executeCommand(command, args, options)
executeCommand(command, args, options, processEnv, spawnOk, printed) ==
    Begin("executeCommand", command, args, options, processEnv, TRUE, spawnOk,
          printed)

\* runScript(script, options)
runScript(script, options, processEnv, logOk, spawnOk, printed) ==
    Begin("runScript", Shell(processEnv), << <<"-c">>, script >>, options,
          processEnv, logOk, spawnOk, printed)

\* The await settles with `outcome`, the subprocess having exited with
\* exitCode (absent: ended by a signal), and the call returns.
Settle(outcome, exitCode, timedOut) ==
    /\ exec # << >>
    /\ exec[1].phase = "running"
    /\ exec' = Some([exec[1] EXCEPT
                         !.phase = "returned",
                         !.returnedAt = now,
                         !.proc = Some([exec[1].proc[1] EXCEPT
                                            !.running = FALSE,
                                            !.exitCode = exitCode,
                                            !.timedOut = timedOut]),
                         !.outcome = Some(outcome),
                         !.result = Some(Classify(outcome))])

\* The subprocess exits on its own: execa resolves for exit code 0 and rejects
\* with an ExecaError carrying the exit code otherwise.
procExit(exitCode) ==
    LET all == Some(exec[1].proc[1].printed) IN
    /\ exec # << >>
    /\ Settle(IF exitCode = 0
              THEN Outcome(FALSE, FALSE, FALSE, Some(0), all)
              ELSE Outcome(TRUE, TRUE, FALSE, Some(exitCode), all),
              Some(exitCode), FALSE)

\* The subprocess is ended by a signal that is not execa's timeout (sent from
\* outside, or by execa when maxBuffer is exceeded): an ExecaError without
\* exit code.
procSignalled ==
    /\ exec # << >>
    /\ Settle(Outcome(TRUE, TRUE, FALSE, Undefined, Some(exec[1].proc[1].printed)),
              Undefined, FALSE)

\* The timer of a running call is due.  execa sets none for timeout: 0.
TimerDue ==
    /\ exec # << >>
    /\ exec[1].phase = "running"
    /\ exec[1].execa[1].timeout > 0
    /\ (now - exec[1].startedAt) * 1000 >= exec[1].execa[1].timeout

\* execa's timer fires: it kills the subprocess, waits for it to exit and
\* rejects with an ExecaError with timedOut set.  The subprocess dies of the
\* signal (no exit code) or its handler exits with a code.
execaTimeout(exitCode) ==
    /\ TimerDue
    /\ Settle(Outcome(TRUE, TRUE, TRUE, exitCode, Some(exec[1].proc[1].printed)),
              exitCode, TRUE)

\* ------------------------------------------------------------------- clock
\* The call returns only when the session has been quiet for settleInterval.
timedCollect_WaitSettle(sessionId, fromPosition, waitOptions) ==
    /\ Get(sessionId) # Undefined
    /\ timed' = Some([id |-> sessionId, waitOptions |-> waitOptions,
                      calledAt |-> now,
                      returnedAt |-> Max(now, heap[sessionId].lastOutputTime
                                              + waitOptions.settleInterval),
                      lastOutputTime |-> heap[sessionId].lastOutputTime])
    /\ UNCHANGED prog

\* A caller makes a collectOutput call with waitOptions on a live session and
\* notes the clock when it calls and when the promise settles.  The body of
\* collectOutput has no await and sets no timer, and waitOptions is not read:
\* the promise settles in the tick of the call, before any other callback
\* runs.
timedCollect(sessionId, fromPosition, waitOptions) ==
    /\ Get(sessionId) # Undefined
    /\ timed' = Some([id |-> sessionId, waitOptions |-> waitOptions,
                      calledAt |-> now,
                      returnedAt |-> now,
                      lastOutputTime |-> heap[sessionId].lastOutputTime])
    /\ UNCHANGED prog

\* Time passes.  A timer that is due fires, and the subprocess it kills
\* exits, before the next tick.
tick ==
    /\ now < MaxTime
    /\ ~TimerDue
    /\ now' = now + 1

\* ------------------------------------------------- PosixFileSystemProvider
\* this.options.workingDirectory of the filesystem provider (it exists: the
\* constructor has returned).
FileSystemRoot == <<Sep, "work">>

\* relativePath.startsWith(".."): the first name is the parent directory, or
\* a name that begins with two dots.
StartsWithDotDot(relativePath) ==
    relativePath # << >> /\ relativePath[1] \in {"..", "..x"}

\* relativeOrAbsolutePathToAbsolutePath(p): an absolute path is checked
\* against the root and returned as it is; a relative one is resolved below
\* the root and returned.
relativeOrAbsolutePathToAbsolutePath(p) ==
    IF IsAbsolute(p)
    THEN LET relativePath == PathRelative(FileSystemRoot, p) IN
         IF StartsWithDotDot(relativePath) \/ IsAbsolute(relativePath)
         THEN [threw |-> TRUE, path |-> << >>]
         ELSE [threw |-> FALSE, path |-> p]
    ELSE [threw |-> FALSE, path |-> PathResolve(FileSystemRoot, p)]

\* The file or directory the host finds at an absolute path: the path with
\* its "." and ".." names resolved (every directory named before a ".." in
\* the paths used here exists).
Normal(p) == PathResolve(<<Sep>>, p)

\* path.dirname(p)
Dirname(p) ==
    LET segs == Segments(Normal(p)) IN
    AbsolutePath(SubSeq(segs, 1, Len(segs) - 1))

\* The directories from the top down to dir.
Ancestors(dir) ==
    LET segs == Segments(Normal(dir)) IN
    {AbsolutePath(SubSeq(segs, 1, k)) : k \in 1..Len(segs)}

IsFile(d, p) == Normal(p) \in DOMAIN d.files
IsDirectory(d, p) == Normal(p) \in d.dirs \/ Normal(p) = <<Sep>>

\* fs.pathExists(p)
PathExists(d, p) == IsFile(d, p) \/ IsDirectory(d, p)

\* q lies below the directory p.
Below(p, q) ==
    /\ Len(q) > Len(p) + 1
    /\ SubSeq(q, 1, Len(p) + 1) = p \o <<Sep>>

\* fs.ensureDir(dir): fails when a file is in the way, else creates the
\* missing directories.
EnsureDir(d, dir) ==
    IF \E a \in Ancestors(dir) : a \in DOMAIN d.files
    THEN [ok |-> FALSE, disk |-> d]
    ELSE [ok |-> TRUE, disk |-> [d EXCEPT !.dirs = @ \cup Ancestors(dir)]]

\* fs.writeFile(p, content): creates or overwrites the file; fails on a
\* directory and without the parent directory.
WriteFile(d, p, content) ==
    IF IsDirectory(d, p) \/ ~IsDirectory(d, Dirname(p))
    THEN [ok |-> FALSE, disk |-> d]
    ELSE [ok |-> TRUE,
          disk |-> [d EXCEPT !.files = (Normal(p) :> content) @@ @]]

\* q with its leading p replaced by r.
Rebase(q, p, r) == r \o SubSeq(q, Len(p) + 1, Len(q))

\* The files and directories of d with p, and all below it, moved to r.
Moved(d, p, r) ==
    LET goes(q) == q = p \/ Below(p, q)
        gone(q) == q = r \/ Below(r, q)
        kept == {q \in DOMAIN d.files : ~goes(q) /\ ~gone(q)}
        went == {q \in DOMAIN d.files : goes(q)}
    IN  [files |-> [q \in kept \cup {Rebase(x, p, r) : x \in went} |->
                       IF q \in kept THEN d.files[q]
                       ELSE d.files[CHOOSE x \in went : Rebase(x, p, r) = q]],
         dirs |-> {q \in d.dirs : ~goes(q) /\ ~gone(q)}
                    \cup {Rebase(x, p, r) : x \in {q \in d.dirs : goes(q)}}]

\* fs.rename(oldPath, newPath), rename(2): fails when oldPath is missing,
\* when the parent of newPath is missing, when one of the two is a directory
\* and the other a file, when newPath is a directory that is not empty, and
\* when newPath lies below oldPath; else it moves oldPath to newPath,
\* replacing a file or an empty directory that is there.
Rename(d, oldPath, newPath) ==
    LET p == Normal(oldPath)
        r == Normal(newPath)
    IN  IF \/ ~PathExists(d, p)
           \/ ~IsDirectory(d, Dirname(r))
           \/ IsFile(d, p) /\ IsDirectory(d, r)
           \/ IsDirectory(d, p) /\ IsFile(d, r)
           \/ IsDirectory(d, r)
                /\ \E q \in DOMAIN d.files \cup d.dirs : Below(r, q)
           \/ Below(p, r)
        THEN [ok |-> FALSE, disk |-> d]
        ELSE IF p = r THEN [ok |-> TRUE, disk |-> d]
        ELSE [ok |-> TRUE, disk |-> Moved(d, p, r)]

\* fs.copy(source, destination, {overwrite}) of fs-extra: fails when source
\* is missing, when the two are the same, when destination lies below
\* source, when one of the two is a directory and the other a file, and when
\* a file is in the way of the parent of destination; else it makes the
\* parent of destination and copies source, and all below it, to destination,
\* leaving a file that is already there as it is unless overwrite is set.
Copy(d, source, destination, overwrite) ==
    LET p == Normal(source)
        r == Normal(destination)
        parent == EnsureDir(d, Dirname(r))
        goes(q) == q = p \/ Below(p, q)
        went == {q \in DOMAIN d.files : goes(q)}
        lands == {q \in went : overwrite \/ Rebase(q, p, r) \notin DOMAIN d.files}
        kept == DOMAIN d.files \ {Rebase(q, p, r) : q \in lands}
    IN  IF \/ ~PathExists(d, p)
           \/ p = r
           \/ Below(p, r)
           \/ IsFile(d, p) /\ IsDirectory(d, r)
           \/ IsDirectory(d, p) /\ IsFile(d, r)
           \/ ~parent.ok
        THEN [ok |-> FALSE, disk |-> d]
        ELSE [ok |-> TRUE,
              disk |->
                [files |-> [q \in kept \cup {Rebase(x, p, r) : x \in lands} |->
                              IF q \in kept THEN d.files[q]
                              ELSE d.files[CHOOSE x \in lands : Rebase(x, p, r) = q]],
                 dirs |-> parent.disk.dirs
                            \cup {Rebase(x, p, r) : x \in {q \in d.dirs : goes(q)}}]]

\* A call in flight: what it was given, where it stands, and the disk as it
\* was when the call was made.
Task(op, oldPath, newPath, content) ==
    [op |-> op, pc |-> "called", oldPath |-> oldPath, newPath |-> newPath,
     content |-> content, overwrite |-> FALSE,
     absoluteOldPath |-> << >>, absoluteNewPath |-> << >>,
     error |-> "", before |-> disk]

\* Task t settles: it returns, or throws the error.
Settled(t, error) ==
    [tasks EXCEPT ![t].pc = IF error = "" THEN "returned" ELSE "threw",
                  ![t].error = error]

\* No call is in flight.
Sequential == \A t \in DOMAIN tasks : tasks[t].pc \in {"returned", "threw"}

\* A caller calls relativeOrAbsolutePathToAbsolutePath(p).
resolvePath(p) ==
    LET resolved == relativeOrAbsolutePathToAbsolutePath(p)
        task == Task("relativeOrAbsolutePathToAbsolutePath", p, << >>, << >>)
    IN  /\ Len(tasks) < MaxTasks
        /\ tasks' = Append(tasks,
                           IF resolved.threw
                           THEN [task EXCEPT !.pc = "threw", !.error = "outside"]
                           ELSE [task EXCEPT !.pc = "returned",
                                             !.absoluteOldPath = resolved.path])
        /\ UNCHANGED disk

\* writeFile(filePath, content), up to the first await.
writeFile(filePath, content) ==
    LET resolved == relativeOrAbsolutePathToAbsolutePath(filePath)
        task == Task("writeFile", filePath, << >>, content)
    IN  /\ Len(tasks) < MaxTasks
        /\ tasks' = Append(tasks,
                           IF resolved.threw
                           THEN [task EXCEPT !.pc = "threw", !.error = "outside"]
                           ELSE [task EXCEPT !.pc = "ensureDir",
                                             !.absoluteOldPath = resolved.path])
        /\ UNCHANGED disk

\* await fs.ensureDir(path.dirname(absolutePath))
writeFileEnsureDir(t) ==
    LET made == EnsureDir(disk, Dirname(tasks[t].absoluteOldPath)) IN
    /\ tasks[t].op = "writeFile"
    /\ tasks[t].pc = "ensureDir"
    /\ disk' = made.disk
    /\ tasks' = IF made.ok THEN [tasks EXCEPT ![t].pc = "write"]
                ELSE Settled(t, "ensureDir")

\* await fs.writeFile(absolutePath, content); return true
writeFileWrite(t) ==
    LET written == WriteFile(disk, tasks[t].absoluteOldPath, tasks[t].content) IN
    /\ tasks[t].op = "writeFile"
    /\ tasks[t].pc = "write"
    /\ disk' = written.disk
    /\ tasks' = Settled(t, IF written.ok THEN "" ELSE "writeFile")

\* rename(oldPath, newPath), up to the first await: both paths are resolved.
rename(oldPath, newPath) ==
    LET old == relativeOrAbsolutePathToAbsolutePath(oldPath)
        new == relativeOrAbsolutePathToAbsolutePath(newPath)
        task == Task("rename", oldPath, newPath, << >>)
    IN  /\ Len(tasks) < MaxTasks
        /\ tasks' = Append(tasks,
                           IF old.threw \/ new.threw
                           THEN [task EXCEPT !.pc = "threw", !.error = "outside"]
                           ELSE [task EXCEPT !.pc = "checkOld",
                                             !.absoluteOldPath = old.path,
                                             !.absoluteNewPath = new.path])
        /\ UNCHANGED disk

\* if (!(await fs.pathExists(absoluteOldPath))) throw ... does not exist
renameCheckOld(t) ==
    /\ tasks[t].op = "rename"
    /\ tasks[t].pc = "checkOld"
    /\ tasks' = IF PathExists(disk, tasks[t].absoluteOldPath)
                THEN [tasks EXCEPT ![t].pc = "checkNew"]
                ELSE Settled(t, "does not exist")
    /\ UNCHANGED disk

\* The destination is not looked at before the move.
renameCheckNew_Skip(t) ==
    /\ tasks[t].op = "rename"
    /\ tasks[t].pc = "checkNew"
    /\ tasks' = [tasks EXCEPT ![t].pc = "ensureDir"]
    /\ UNCHANGED disk

\* if (await fs.pathExists(absoluteNewPath)) throw ... already exists
renameCheckNew(t) ==
    /\ tasks[t].op = "rename"
    /\ tasks[t].pc = "checkNew"
    /\ tasks' = IF PathExists(disk, tasks[t].absoluteNewPath)
                THEN Settled(t, "already exists")
                ELSE [tasks EXCEPT ![t].pc = "ensureDir"]
    /\ UNCHANGED disk

\* await fs.ensureDir(path.dirname(absoluteNewPath))
renameEnsureDir(t) ==
    LET made == EnsureDir(disk, Dirname(tasks[t].absoluteNewPath)) IN
    /\ tasks[t].op = "rename"
    /\ tasks[t].pc = "ensureDir"
    /\ disk' = made.disk
    /\ tasks' = IF made.ok THEN [tasks EXCEPT ![t].pc = "move"]
                ELSE Settled(t, "ensureDir")

\* await fs.rename(absoluteOldPath, absoluteNewPath); return true
renameMove(t) ==
    LET moved == Rename(disk, tasks[t].absoluteOldPath, tasks[t].absoluteNewPath) IN
    /\ tasks[t].op = "rename"
    /\ tasks[t].pc = "move"
    /\ disk' = moved.disk
    /\ tasks' = Settled(t, IF moved.ok THEN "" ELSE "rename")

\* copy(source, destination, {overwrite}), up to the first await: both paths
\* are resolved.
copy(source, destination, overwrite) ==
    LET from == relativeOrAbsolutePathToAbsolutePath(source)
        to == relativeOrAbsolutePathToAbsolutePath(destination)
        task == [Task("copy", source, destination, << >>)
                    EXCEPT !.overwrite = overwrite]
    IN  /\ Len(tasks) < MaxTasks
        /\ tasks' = Append(tasks,
                           IF from.threw \/ to.threw
                           THEN [task EXCEPT !.pc = "threw", !.error = "outside"]
                           ELSE [task EXCEPT !.pc = "checkOld",
                                             !.absoluteOldPath = from.path,
                                             !.absoluteNewPath = to.path])
        /\ UNCHANGED disk

\* if (!(await fs.pathExists(absoluteSource))) throw ... does not exist
copyCheckSource(t) ==
    /\ tasks[t].op = "copy"
    /\ tasks[t].pc = "checkOld"
    /\ tasks' = IF ~PathExists(disk, tasks[t].absoluteOldPath)
                THEN Settled(t, "does not exist")
                ELSE IF tasks[t].overwrite THEN [tasks EXCEPT ![t].pc = "move"]
                ELSE [tasks EXCEPT ![t].pc = "checkNew"]
    /\ UNCHANGED disk

\* if (!overwrite && (await fs.pathExists(absoluteDestination))) throw ...
\* already exists
copyCheckDestination(t) ==
    /\ tasks[t].op = "copy"
    /\ tasks[t].pc = "checkNew"
    /\ tasks' = IF PathExists(disk, tasks[t].absoluteNewPath)
                THEN Settled(t, "already exists")
                ELSE [tasks EXCEPT ![t].pc = "move"]
    /\ UNCHANGED disk

\* await fs.copy(absoluteSource, absoluteDestination, {overwrite}); return true
copyCopy(t) ==
    LET copied == Copy(disk, tasks[t].absoluteOldPath, tasks[t].absoluteNewPath,
                       tasks[t].overwrite) IN
    /\ tasks[t].op = "copy"
    /\ tasks[t].pc = "move"
    /\ disk' = copied.disk
    /\ tasks' = Settled(t, IF copied.ok THEN "" ELSE "copy")

\* -------------------------------------------------------------------- Next
\* ret holds the call of the last step as its caller sees it, and is empty
\* after a callback (and always, when calls are not logged).
Log(r) == IF logCalls THEN r ELSE << >>

StartSession ==
    \E spawnOk \in BOOLEAN :
        /\ startInteractiveSession(<< >>, HostEnv, spawnOk)
        /\ ret' = Log(startInteractiveSessionCall(spawnOk))
        /\ UNCHANGED <<logCalls, marked, chain, now, timed, exec, provider, disk, tasks>>

StartSessionReturn ==
    /\ startInteractiveSessionReturn
    /\ ret' = Log(startInteractiveSessionReturnCall)
    /\ UNCHANGED <<logCalls, marked, chain, now, timed, exec, provider, disk, tasks>>

Data ==
    \E id \in IdUniverse : \E data \in Chunks(id) :
        /\ onData(id, data)
        /\ ret' = << >>
        /\ UNCHANGED <<logCalls, marked, chain, now, timed, exec, provider, disk, tasks>>

Exit ==
    \E id \in IdUniverse, exitCode \in ExitCodes :
        /\ onExit(id, exitCode)
        /\ ret' = << >>
        /\ UNCHANGED <<logCalls, marked, chain, now, timed, exec, provider, disk, tasks>>

Collect ==
    \E id \in IdUniverse, from \in Positions :
        /\ collectOutput(id, from)
        /\ ret' = Log(collectOutputCall(id, from))
        /\ UNCHANGED <<logCalls, marked, chain, now, timed, exec, provider, disk, tasks>>

Send ==
    \E id \in IdUniverse, input \in Inputs :
        /\ sendInput(id, input)
        /\ CountWritten(DOMAIN pty)' <= MaxWrites
        /\ ret' = Log(sendInputCall(id, input))
        /\ UNCHANGED <<logCalls, marked, chain, now, timed, exec, provider, disk, tasks>>

Terminate ==
    \E id \in IdUniverse, killOk \in BOOLEAN :
        /\ terminateSession(id, killOk)
        /\ ret' = Log(terminateSessionCall(id, killOk))
        /\ UNCHANGED <<logCalls, marked, chain, now, timed, exec, provider, disk, tasks>>

Status ==
    \E id \in IdUniverse :
        /\ getSessionStatus(id)
        /\ ret' = Log(getSessionStatusCall(id))
        /\ UNCHANGED <<logCalls, marked, chain, now, timed, exec, provider, disk, tasks>>

FirstRead ==
    \E id \in IdUniverse, from \in Positions :
        /\ firstRead(id, from)
        /\ UNCHANGED <<logCalls, ret, chain, now, timed, exec, provider, disk, tasks>>

SecondRead ==
    /\ secondRead
    /\ UNCHANGED <<logCalls, ret, chain, now, timed, exec, provider, disk, tasks>>

ChainRead ==
    \E id \in IdUniverse, restart \in BOOLEAN :
        /\ chainRead(id, restart)
        /\ UNCHANGED <<logCalls, ret, marked, now, timed, exec, provider, disk, tasks>>

TimedCollect ==
    \E id \in IdUniverse, from \in Positions, waitOptions \in WaitOptions :
        /\ timedCollect(id, from, waitOptions)
        /\ UNCHANGED <<logCalls, ret, marked, chain, now, exec, provider, disk, tasks>>

Tick ==
    /\ tick
    /\ UNCHANGED <<prog, logCalls, ret, marked, chain, timed, exec, provider, disk, tasks>>

\* Every call and every callback.
Next ==
    \/ StartSession
    \/ StartSessionReturn
    \/ Data
    \/ Exit
    \/ Collect
    \/ Send
    \/ Terminate
    \/ Status

Init == Fresh /\ logCalls = TRUE

\* The provider with every call logged in ret.
Spec == Init /\ [][Next]_vars

InitQuiet == Fresh /\ logCalls = FALSE

\* The provider with no call logged.
SpecQuiet == InitQuiet /\ [][Next]_vars

NextKeep == Next \/ FirstRead \/ SecondRead

\* The provider with a caller that makes two collectOutput calls with the
\* same arguments.
SpecKeep == InitQuiet /\ [][NextKeep]_vars

NextChain == Next \/ ChainRead

\* The provider with a caller that follows the cursor protocol.
SpecChain == InitQuiet /\ [][NextChain]_vars

\* The options a caller passes to executeCommand and runScript.
ExecuteCommandOptions ==
    [timeoutSeconds : TimeoutSeconds, env : CallerEnvs, input : CallerInputs,
     workingDirectory : WorkingDirectories]

ExecuteCommand ==
    \E options \in ExecuteCommandOptions, processEnv \in ProcessEnvs,
       spawnOk \in BOOLEAN, printed \in CommandOutputs :
        /\ executeCommand(<<"ls">>, << >>, options, processEnv, spawnOk, printed)
        /\ UNCHANGED <<prog, logCalls, ret, marked, chain, now, timed, provider, disk, tasks>>

RunScript ==
    \E script \in Scripts, options \in ExecuteCommandOptions,
       processEnv \in ProcessEnvs,
       logOk \in BOOLEAN, spawnOk \in BOOLEAN, printed \in CommandOutputs :
        /\ runScript(script, options, processEnv, logOk, spawnOk, printed)
        /\ UNCHANGED <<prog, logCalls, ret, marked, chain, now, timed, provider, disk, tasks>>

ProcExit ==
    \E exitCode \in ExitCodes :
        /\ procExit(exitCode)
        /\ UNCHANGED <<prog, logCalls, ret, marked, chain, now, timed, provider, disk, tasks>>

ProcSignalled ==
    /\ procSignalled
    /\ UNCHANGED <<prog, logCalls, ret, marked, chain, now, timed, provider, disk, tasks>>

ExecaTimeout ==
    \E exitCode \in {Undefined} \cup {Some(c) : c \in ExitCodes} :
        /\ execaTimeout(exitCode)
        /\ UNCHANGED <<prog, logCalls, ret, marked, chain, now, timed, provider, disk, tasks>>

NextExec ==
    \/ ExecuteCommand
    \/ RunScript
    \/ ProcExit
    \/ ProcSignalled
    \/ ExecaTimeout
    \/ Tick

\* One-shot commands: executeCommand and runScript calls, one at a time, with
\* their subprocesses and a clock.
SpecExec == InitQuiet /\ [][NextExec]_vars

\* The options of the calls made over a provider's life.
LifeOptions ==
    [timeoutSeconds |-> 1, env |-> << >>, input |-> << >>,
     workingDirectory |-> << >>]

\* The environments of the host: with and without SHELL.
LifeEnvs == {HostEnv, [PATH |-> "/bin", FOO |-> "host", SHELL |-> <<Sep, "bin", Sep, "sh">>]}

Construct ==
    \E options \in ProviderOptions, exists \in BOOLEAN, found \in BOOLEAN :
        /\ constructor(options, exists, found)
        /\ UNCHANGED <<prog, logCalls, ret, marked, chain, now, timed, exec, disk, tasks>>

Drop ==
    /\ drop
    /\ UNCHANGED <<prog, logCalls, ret, marked, chain, now, timed, exec, disk, tasks>>

GetIsolation ==
    /\ getIsolationLevel
    /\ UNCHANGED <<prog, logCalls, ret, marked, chain, now, timed, exec, disk, tasks>>

LifeCommand ==
    \E command \in Commands, args \in ArgLists, spawnOk \in BOOLEAN :
        /\ executeCommand(command, args, LifeOptions, HostEnv, spawnOk, << >>)
        /\ UNCHANGED <<prog, logCalls, ret, marked, chain, now, timed, provider, disk, tasks>>

LifeScript ==
    \E script \in Scripts, processEnv \in LifeEnvs, spawnOk \in BOOLEAN :
        /\ runScript(script, LifeOptions, processEnv, TRUE, spawnOk, << >>)
        /\ UNCHANGED <<prog, logCalls, ret, marked, chain, now, timed, provider, disk, tasks>>

\* Only the owner of a provider calls its methods.
LifeTerminate == Ready /\ Terminate

NextLife ==
    \/ Construct
    \/ Drop
    \/ GetIsolation
    \/ StartSession
    \/ StartSessionReturn
    \/ Exit
    \/ LifeTerminate
    \/ LifeCommand
    \/ LifeScript
    \/ ProcExit

\* Nothing is constructed yet.
InitLife == Blank /\ provider = NoProvider /\ logCalls = FALSE

\* A provider from before its construction until its owner lets go of it,
\* with the sessions and commands started in between.
SpecLife == InitLife /\ [][NextLife]_vars

FlightRead ==
    \E id \in IdUniverse, from \in 0..MaxData :
        /\ flightRead(id, from)
        /\ UNCHANGED <<logCalls, ret, chain, now, timed, exec, provider, disk, tasks>>

NextFlight ==
    \/ StartSession
    \/ StartSessionReturn
    \/ Data
    \/ Exit
    \/ Terminate
    \/ FlightRead

\* The provider with a caller that has several collectOutput calls on one
\* session in flight while data arrives.
SpecFlight == InitQuiet /\ [][NextFlight]_vars

StartSessionEnv ==
    \E env \in CallerEnvs, processEnv \in ProcessEnvs, spawnOk \in BOOLEAN :
        /\ startInteractiveSession(env, processEnv, spawnOk)
        /\ ret' = Log(startInteractiveSessionCall(spawnOk))
        /\ UNCHANGED <<logCalls, marked, chain, now, timed, exec, provider, disk, tasks>>

NextEnv ==
    \/ StartSessionEnv
    \/ StartSessionReturn
    \/ Exit
    \/ Terminate

\* The provider with sessions started in the environments of callers and hosts.
SpecEnv == InitQuiet /\ [][NextEnv]_vars

\* The callbacks, with the last one that ran for a session terminateSession
\* had removed kept in `marked`.
LateData ==
    \E id \in IdUniverse : \E data \in Chunks(id) :
        /\ onData(id, data)
        /\ marked' = IF id \notin sessions /\ pty[id].kills > 0
                     THEN Some([id |-> id, callback |-> "onData"]) ELSE marked
        /\ UNCHANGED <<logCalls, ret, chain, now, timed, exec, provider, disk, tasks>>

LateExit ==
    \E id \in IdUniverse, exitCode \in ExitCodes :
        /\ onExit(id, exitCode)
        /\ marked' = IF id \notin sessions /\ pty[id].kills > 0
                     THEN Some([id |-> id, callback |-> "onExit"]) ELSE marked
        /\ UNCHANGED <<logCalls, ret, chain, now, timed, exec, provider, disk, tasks>>

NextLate ==
    \/ StartSession
    \/ StartSessionReturn
    \/ LateData
    \/ LateExit
    \/ Terminate

\* The provider with the callbacks of terminated sessions observed.
SpecLate == InitQuiet /\ [][NextLate]_vars

SendLine ==
    \E id \in IdUniverse, input \in Lines :
        /\ sendInput(id, input)
        /\ CountWritten(DOMAIN pty)' <= MaxLines
        /\ ret' = Log(sendInputCall(id, input))
        /\ UNCHANGED <<logCalls, marked, chain, now, timed, exec, provider, disk, tasks>>

NextLines ==
    \/ StartSession
    \/ StartSessionReturn
    \/ Data
    \/ Exit
    \/ Terminate
    \/ SendLine

\* The provider with a caller that sends lines to its sessions.
SpecLines == InitQuiet /\ [][NextLines]_vars

\* The paths callers pass: relative ones below the root, one that climbs out
\* of it, a name that begins with two dots, and absolute ones inside and
\* outside the root.
FilePaths ==
    {<<"a">>, <<"b">>, <<"d">>, <<"d", Sep, "c">>,
     <<"..", Sep, "etc", Sep, "x">>, <<"..x">>,
     <<Sep, "work", Sep, "a">>, <<Sep, "work", Sep, "..x">>,
     <<Sep, "work", Sep, "..", Sep, "etc", Sep, "x">>,
     <<Sep, "etc", Sep, "x">>}

\* The paths of the writeFile calls.
WritePaths == {<<"b">>, <<"d", Sep, "c">>, <<"..", Sep, "etc", Sep, "x">>}

\* The paths of the rename calls.
MovePaths ==
    {<<"a">>, <<"b">>, <<"d">>, <<"d", Sep, "c">>, <<"..", Sep, "etc", Sep, "x">>}

Contents == {<<"x">>, <<"y">>}

\* The host before the first call: one file next to the root, and below the
\* root nothing, a file, or a directory with a file.
Disks ==
    LET secret == (<<Sep, "etc", Sep, "x">> :> <<"s">>)
        a == (<<Sep, "work", Sep, "a">> :> <<"x">>)
        c == (<<Sep, "work", Sep, "d", Sep, "c">> :> <<"y">>)
        d == {<<Sep, "work", Sep, "d">>}
    IN  {[EmptyDisk EXCEPT !.files = secret],
         [EmptyDisk EXCEPT !.files = secret @@ a],
         [EmptyDisk EXCEPT !.files = secret @@ a @@ c, !.dirs = @ \cup d]}

ResolvePath ==
    \E p \in FilePaths :
        /\ Sequential
        /\ resolvePath(p)
        /\ UNCHANGED terminal

WriteFileCall ==
    \E filePath \in WritePaths, content \in Contents :
        /\ Sequential
        /\ writeFile(filePath, content)
        /\ UNCHANGED terminal

\* An await of a writeFile call settles.
WriteFileStep ==
    \E t \in DOMAIN tasks :
        /\ writeFileEnsureDir(t) \/ writeFileWrite(t)
        /\ UNCHANGED terminal

RenameCall ==
    \E oldPath \in MovePaths, newPath \in MovePaths :
        /\ Sequential
        /\ rename(oldPath, newPath)
        /\ UNCHANGED terminal

\* An await of a rename call settles.
RenameStep ==
    \E t \in DOMAIN tasks :
        /\ \/ renameCheckOld(t)
           \/ renameCheckNew(t)
           \/ renameEnsureDir(t)
           \/ renameMove(t)
        /\ UNCHANGED terminal

NextFiles ==
    \/ ResolvePath
    \/ WriteFileCall
    \/ WriteFileStep
    \/ RenameCall
    \/ RenameStep

\* A filesystem provider on one of the disks, before its first call.
InitFiles ==
    /\ NoSessions
    /\ provider = PlainProvider
    /\ logCalls = FALSE
    /\ disk \in Disks
    /\ tasks = << >>

\* The filesystem provider with a caller that makes one call after another.
SpecFiles == InitFiles /\ [][NextFiles]_vars

\* The paths of the calls that overlap.
RacePaths == {<<"a">>, <<"b">>}

\* A caller calls writeFile, rename or copy without awaiting the calls it
\* made before.
ConcurrentCall ==
    /\ \/ \E filePath \in RacePaths : writeFile(filePath, <<"y">>)
       \/ \E oldPath \in RacePaths, newPath \in RacePaths : rename(oldPath, newPath)
       \/ \E source \in RacePaths, destination \in RacePaths, overwrite \in BOOLEAN :
              copy(source, destination, overwrite)
    /\ UNCHANGED terminal

\* An await of a copy call settles.
CopyStep ==
    \E t \in DOMAIN tasks :
        /\ \/ copyCheckSource(t)
           \/ copyCheckDestination(t)
           \/ copyCopy(t)
        /\ UNCHANGED terminal

NextRace ==
    \/ ConcurrentCall
    \/ WriteFileStep
    \/ RenameStep
    \/ CopyStep

\* The filesystem provider with a caller whose calls overlap.
SpecRace == InitFiles /\ [][NextRace]_vars

\* The working directories of the wrapped calls: none, and one below the root.
WrapOptions ==
    [timeoutSeconds : {1}, env : {<< >>}, input : {<< >>},
     workingDirectory : {<< >>, <<[type |-> "string", value |-> <<"sub">>]>>}]

WrapCommand ==
    \E command \in Commands, args \in ArgLists, options \in WrapOptions,
       spawnOk \in BOOLEAN :
        /\ executeCommand(command, args, options, HostEnv, spawnOk, << >>)
        /\ UNCHANGED <<prog, logCalls, ret, marked, chain, now, timed, provider, disk, tasks>>

WrapScript ==
    \E script \in Scripts, options \in WrapOptions, processEnv \in LifeEnvs,
       spawnOk \in BOOLEAN :
        /\ runScript(script, options, processEnv, TRUE, spawnOk, << >>)
        /\ UNCHANGED <<prog, logCalls, ret, marked, chain, now, timed, provider, disk, tasks>>

NextWrap ==
    \/ Construct
    \/ WrapCommand
    \/ WrapScript
    \/ ProcExit

\* One command or script of a newly constructed provider, over the isolation
\* levels, commands, argument lists and working directories.
SpecWrap == InitLife /\ [][NextWrap]_vars

NextClock == Next \/ Tick \/ TimedCollect

\* The provider with a clock and a caller that times its collectOutput calls.
SpecClock == InitQuiet /\ [][NextClock]_vars

\* ================================================================== claims
IsPrefix(s, t) == Len(s) <= Len(t) /\ SubSeq(t, 1, Len(s)) = s

RECURSIVE Flatten(_)
\* The concatenation of a sequence of chunks, in order.
Flatten(chunks) ==
    IF chunks = << >> THEN << >> ELSE Flatten(SubSeq(chunks, 1, Len(chunks) - 1)) \o chunks[Len(chunks)]

DigitValue(c) == CHOOSE d \in 0..9 : DigitChars[d + 1] = c

RECURSIVE ParseDecimal(_)
ParseDecimal(ds) ==
    IF ds = << >> THEN 0
    ELSE 10 * ParseDecimal(SubSeq(ds, 1, Len(ds) - 1)) + DigitValue(ds[Len(ds)])

\* s reads term-<n>, n a positive integer in decimal: /^term-\d+$/ and n > 0.
IsTermId(s) ==
    /\ Len(s) > Len(TermPrefix)
    /\ SubSeq(s, 1, Len(TermPrefix)) = TermPrefix
    /\ \A i \in (Len(TermPrefix) + 1)..Len(s) : \E d \in 0..9 : DigitChars[d + 1] = s[i]
    /\ ParseDecimal(SubSeq(s, Len(TermPrefix) + 1, Len(s))) > 0

IdNumber(s) == ParseDecimal(SubSeq(s, Len(TermPrefix) + 1, Len(s)))

\* The last step was the call `op`.
Made(op) == ret # << >> /\ ret[1].op = op

\* C1: every id startInteractiveSession has returned reads term-<n> with n a
\* positive integer, and each is greater in n than every id returned before
\* it (so none is returned twice), whatever was terminated in between.
C1_IdsIncrease ==
    /\ \A i \in 1..Len(returned) : IsTermId(returned[i])
    /\ \A i, j \in 1..Len(returned) :
           i < j => IdNumber(returned[i]) < IdNumber(returned[j])

\* Two ids have been returned, and the session of the first has been
\* terminated.
C1_Witness ==
    /\ Len(returned) = 2
    /\ returned[1] \notin sessions
    /\ pty[returned[1]].kills = 1

\* C2: a collectOutput call on a live session with fromPosition between 0
\* and the buffer length returns the buffer from fromPosition to its end as
\* output and the buffer length as newPosition.
C2_CollectReturnsRest ==
    (Made("collectOutput") /\ ~ret[1].threw) =>
        LET buf == heap[ret[1].id].outputBuffer
            from == ret[1].from
            res == ret[1].val[1]
        IN  (0 <= from /\ from <= Len(buf)) =>
                /\ res.output = [i \in 1..(Len(buf) - from) |-> buf[from + i]]
                /\ res.newPosition = Len(buf)

\* A collectOutput call from the middle of a two-character buffer.
C2_Witness ==
    /\ Made("collectOutput")
    /\ ~ret[1].threw
    /\ ret[1].from = 1
    /\ Len(heap[ret[1].id].outputBuffer) = 2
    /\ ret[1].val[1].output = <<"b">>

\* C3: in a chain of collectOutput calls on a live session, the first from 0
\* and each next one from the newPosition before it, the outputs concatenated
\* are what one collectOutput from 0 returns at the moment of the last call,
\* and they are as long as the last newPosition (no character twice).
C3_ChainEqualsWhole ==
    chain # << >> =>
        /\ chain[1].acc = chain[1].whole
        /\ Len(chain[1].acc) = chain[1].pos

\* A chain in which two calls each returned new output.
C3_Witness ==
    /\ chain # << >>
    /\ chain[1].parts = 2
    /\ chain[1].acc = <<"a", "b">>

\* C4: of two collectOutput calls on one live session with the same
\* fromPosition, the output of the earlier is a prefix of the output of the
\* later, and the two are equal when no data arrived in between.
C4_SameFromNeverLoses ==
    (marked # << >> /\ marked[1].second # << >>) =>
        /\ IsPrefix(marked[1].first, marked[1].second[1])
        /\ marked[1].firstData = marked[1].secondData =>
               marked[1].first = marked[1].second[1]

\* The later call returned what the earlier did and more.
C4_Witness ==
    /\ marked # << >>
    /\ marked[1].second # << >>
    /\ marked[1].first # << >>
    /\ Len(marked[1].first) < Len(marked[1].second[1])

\* C5: while a session is live, each step leaves its buffer a prefix of the
\* new buffer, and the buffer is the concatenation of the chunks delivered to
\* it so far, in the order of delivery.
C5_BufferAppendOnly ==
    /\ [][\A id \in sessions \cap sessions' :
              IsPrefix(heap[id].outputBuffer, heap'[id].outputBuffer)]_vars
    /\ [](\A id \in sessions : heap[id].outputBuffer = Flatten(pty[id].delivered))

\* A live session that has received two chunks.
C5_Witness ==
    \E id \in sessions :
        /\ Len(pty[id].delivered) = 2
        /\ heap[id].outputBuffer = <<"a", "b">>

\* C6: a live session has no exit code while its process runs, and once it
\* has one no step changes or clears it, and its status never says running
\* again.
C6_ExitCodeSetOnce ==
    /\ [](\A id \in sessions : ~pty[id].exited => heap[id].exitCode = Undefined)
    /\ [][\A id \in sessions \cap sessions' :
              heap[id].exitCode # Undefined =>
                  /\ heap'[id].exitCode = heap[id].exitCode
                  /\ ~GetSessionStatus(id)'[1].running]_vars

\* A live session whose process exited with code 1, which received data and
\* input after that.
C6_Witness ==
    \E id \in sessions :
        /\ pty[id].late
        /\ pty[id].written # << >>
        /\ heap[id].exitCode = Some(1)
        /\ Len(heap[id].outputBuffer) = 2

\* C7: for every live session, collectOutput reports isComplete exactly when
\* the exit callback has run, getSessionStatus reports running as its
\* negation, and both report the same exit code.
C7_CompleteIffExited ==
    \A id \in sessions : \A from \in Positions :
        LET res == CollectOutput(Get(id)[1], from)
            status == GetSessionStatus(id)[1]
        IN  /\ res.isComplete = pty[id].exited
            /\ status.running = ~res.isComplete
            /\ status.exitCode = res.exitCode

\* A live session whose exit callback has run with exit code 0: collectOutput
\* reports it complete and getSessionStatus reports it not running.
C7_Witness ==
    \E id \in sessions :
        /\ pty[id].exited
        /\ pty[id].code = Some(0)
        /\ collectOutputCall(id, 0)[1].val[1].isComplete
        /\ collectOutputCall(id, 0)[1].val[1].exitCode = Some(0)
        /\ ~GetSessionStatus(id)[1].running

\* C8: a session leaves the map only in a terminateSession call for its id,
\* and while a session whose process has exited is in the map,
\* getSessionStatus and collectOutput succeed for it and return all it
\* received and its exit code.
C8_OnlyTerminateRemoves ==
    /\ [][\A id \in sessions :
              id \notin sessions' =>
                  ret' = Call("terminateSession", id, 0, FALSE, TRUE, << >>)]_vars
    /\ [](\A id \in sessions :
              pty[id].exited =>
                  /\ GetSessionStatus(id) # Null
                  /\ GetSessionStatus(id)[1].exitCode = pty[id].code
                  /\ GetSessionStatus(id)[1].outputLength = Len(Flatten(pty[id].delivered))
                  /\ ~collectOutputCall(id, 0)[1].threw
                  /\ collectOutputCall(id, 0)[1].val[1].output = Flatten(pty[id].delivered)
                  /\ collectOutputCall(id, 0)[1].val[1].exitCode = pty[id].code)

\* The whole output of an exited session, collected after its exit.
C8_Witness ==
    /\ Made("collectOutput")
    /\ ~ret[1].threw
    /\ ret[1].from = 0
    /\ pty[ret[1].id].exited
    /\ ret[1].val[1].output = <<"a", "b">>
    /\ ret[1].val[1].exitCode = Some(1)

\* C9: after a terminateSession call that returned, getSessionStatus of the
\* id is null; a terminateSession call on an id that is not in the map does
\* not throw and changes nothing of the provider, its sessions or their
\* processes.
C9_TerminateIdempotent ==
    /\ []((Made("terminateSession") /\ ~ret[1].threw) =>
              /\ ret[1].id \notin sessions
              /\ GetSessionStatus(ret[1].id) = Null)
    /\ [][(ret' # << >> /\ ret'[1].op = "terminateSession" /\ ret'[1].id \notin sessions) =>
              /\ ~ret'[1].threw
              /\ UNCHANGED prog]_vars

\* A second terminateSession call on a session terminated before.
C9_Witness ==
    /\ Made("terminateSession")
    /\ ~ret[1].found
    /\ ~ret[1].threw
    /\ ret[1].id \in DOMAIN pty
    /\ pty[ret[1].id].kills = 1

\* C10: a terminateSession call on an id in the map leaves the id out of the
\* map, whatever the state of its process and whether or not kill() failed,
\* and a process that has not exited has been sent the kill signal.
C10_TerminateAlwaysRemoves ==
    (Made("terminateSession") /\ ret[1].found) =>
        /\ ret[1].id \notin sessions
        /\ ~pty[ret[1].id].exited => pty[ret[1].id].kills > 0

\* C11: a sendInput or collectOutput call with an id that is not in the map
\* (never allocated, or terminated) throws, and leaves the counter, the map,
\* every session object and every process (what was written to it included)
\* as they were.
C11_UnknownIdThrows ==
    [][(/\ ret' # << >>
        /\ ret'[1].op \in {"sendInput", "collectOutput"}
        /\ ret'[1].id \notin sessions) =>
           /\ ret'[1].threw
           /\ ~ret'[1].found
           /\ ret'[1].val = << >>
           /\ UNCHANGED prog]_vars

\* A sendInput call on a terminated session, which threw and wrote nothing.
C11_Witness ==
    /\ Made("sendInput")
    /\ ret[1].threw
    /\ ret[1].id \in DOMAIN pty
    /\ ret[1].id \notin sessions
    /\ pty[ret[1].id].kills = 1
    /\ pty[ret[1].id].written = << >>

\* C12: a collectOutput call returns only once the session has received no
\* data for settleInterval, or maxInterval has passed since the call.
C12_WaitsForSettleOrMax ==
    timed # << >> =>
        \/ timed[1].returnedAt - timed[1].lastOutputTime >= timed[1].waitOptions.settleInterval
        \/ timed[1].returnedAt - timed[1].calledAt >= timed[1].waitOptions.maxInterval

\* C13: every collectOutput call on a live session returns no later than
\* maxInterval after it was made, whether the process is printing, silent or
\* exited.
C13_ReturnsWithinMax ==
    timed # << >> =>
        timed[1].returnedAt - timed[1].calledAt <= timed[1].waitOptions.maxInterval

\* A call with a settle time above the cap has returned; it was made on a
\* running session in a tick in which data had arrived.
C13_Witness ==
    /\ timed # << >>
    /\ timed[1].waitOptions.settleInterval > timed[1].waitOptions.maxInterval
    /\ timed[1].lastOutputTime = timed[1].calledAt
    /\ heap[timed[1].id].startTime < timed[1].calledAt
    /\ ~pty[timed[1].id].exited

\* The step is a data arrival, a process exit, or a sendInput, collectOutput
\* or terminateSession call on session a.
StepOn(a) ==
    \/ pty'[a] # pty[a]
    \/ /\ ret' # << >>
       /\ ret'[1].op \in {"sendInput", "collectOutput", "terminateSession"}
       /\ ret'[1].id = a

\* C14: for two distinct live sessions a and b, a data arrival, a process
\* exit, or a sendInput, collectOutput or terminateSession call on a leaves
\* b in the map and leaves b's buffer and exit code as they were.
C14_SessionsIndependent ==
    [][\A a, b \in sessions :
          (a # b /\ StepOn(a)) =>
              /\ b \in sessions'
              /\ heap'[b].outputBuffer = heap[b].outputBuffer
              /\ heap'[b].exitCode = heap[b].exitCode]_vars

\* One of two sessions that both received data has just been terminated; the
\* other, whose process has exited, is in the map with its buffer and code.
C14_Witness ==
    /\ Made("terminateSession")
    /\ ret[1].found
    /\ ~ret[1].threw
    /\ heap[ret[1].id].outputBuffer = <<"a">>
    /\ heap[ret[1].id].exitCode = Undefined
    /\ \E b \in sessions :
           /\ b # ret[1].id
           /\ heap[b].outputBuffer = <<"a">>
           /\ heap[b].exitCode = Some(1)

\* The call has returned a result.
Returned == exec # << >> /\ exec[1].phase = "returned"

\* t is s without the whitespace at its two ends.
IsTrimOf(t, s) ==
    \E i \in 1..(Len(s) + 1) : \E j \in 0..Len(s) :
        /\ t = SubSeq(s, i, j)
        /\ \A k \in 1..Len(s) : (k < i \/ k > j) => s[k] \in Whitespace
        /\ t # << >> => (t[1] \notin Whitespace /\ t[Len(t)] \notin Whitespace)

\* C15: the result of a completed executeCommand or runScript call is success
\* with the trimmed output when the subprocess exited with code 0, timeout
\* when execa's timer ended it (with or without an exit code), badExitCode
\* with the code and the output when it exited with another code, and
\* unknownError in every other case (no subprocess, or ended without exit
\* code).
C15_FourOutcomes ==
    Returned =>
        LET res == exec[1].result[1]
            proc == exec[1].proc
        IN  IF proc # Undefined /\ proc[1].timedOut
            THEN res.status = "timeout"
            ELSE IF proc # Undefined /\ proc[1].exitCode = Some(0)
            THEN /\ res.status = "success"
                 /\ res.output # Undefined
                 /\ IsTrimOf(res.output[1], proc[1].printed)
            ELSE IF proc # Undefined /\ proc[1].exitCode # Undefined
            THEN /\ res.status = "badExitCode"
                 /\ res.exitCode = proc[1].exitCode
                 /\ res.output = Some(proc[1].printed)
            ELSE /\ res.status = "unknownError"
                 /\ res.error

\* A subprocess that printed output with whitespace around it and exited
\* with code 0.
C15_Witness ==
    /\ Returned
    /\ exec[1].result[1].status = "success"
    /\ exec[1].proc[1].printed = <<" ", "o", "k", "\n">>
    /\ exec[1].result[1].output = Some(<<"o", "k">>)

\* C16: every executeCommand and runScript call that is over has returned an
\* ExecuteCommandResult; none has thrown.
C16_NeverThrows ==
    (exec # << >> /\ exec[1].phase # "running") =>
        /\ exec[1].phase = "returned"
        /\ exec[1].result # Undefined

\* C17: for every timeoutSeconds >= 0, a call still running was started no
\* more than timeoutSeconds ago, and a call that returned did so no more than
\* timeoutSeconds after it started.
C17_ReturnsWithinTimeout ==
    (exec # << >> /\ exec[1].options.timeoutSeconds >= 0 /\ exec[1].phase # "rejected") =>
        /\ exec[1].phase = "running" => now - exec[1].startedAt <= exec[1].options.timeoutSeconds
        /\ exec[1].phase = "returned" =>
               exec[1].returnedAt - exec[1].startedAt <= exec[1].options.timeoutSeconds

C19_InputFedToStdin ==
    (exec # << >> /\ exec[1].proc # Undefined) =>
        exec[1].proc[1].stdin = exec[1].options.input

\* The forced terminal variables of runScript.
Forced == [TERM |-> "dumb", NO_COLOR |-> "1"]

\* C20: the environment of a subprocess has the caller's value for every
\* variable of options.env; for runScript, TERM and NO_COLOR that the caller
\* does not set are dumb and 1; every other variable has the inherited
\* value; and there are no other variables.
C20_EnvOverlay ==
    (exec # << >> /\ exec[1].proc # Undefined) =>
        LET env == exec[1].proc[1].env
            caller == exec[1].options.env
            inherited == exec[1].processEnv
            forced == IF exec[1].method = "runScript" THEN DOMAIN Forced ELSE {}
        IN  /\ DOMAIN env = DOMAIN caller \cup DOMAIN inherited \cup forced
            /\ \A k \in DOMAIN env :
                   env[k] = IF k \in DOMAIN caller THEN caller[k]
                            ELSE IF k \in forced THEN Forced[k]
                            ELSE inherited[k]

\* A runScript subprocess: the caller set TERM only, the host sets TERM,
\* NO_COLOR and FOO; TERM is the caller's, NO_COLOR is forced, FOO inherited.
C20_Witness ==
    /\ exec # << >>
    /\ exec[1].method = "runScript"
    /\ exec[1].proc # Undefined
    /\ exec[1].options.env = [TERM |-> "xterm"]
    /\ exec[1].processEnv = [PATH |-> "/bin", FOO |-> "host", TERM |-> "vt100", NO_COLOR |-> "host"]
    /\ exec[1].proc[1].env = [PATH |-> "/bin", FOO |-> "host", TERM |-> "xterm", NO_COLOR |-> "1"]

\* A provider has been constructed (its owner may have let go of it since).
Built == provider.state \in {"ready", "dropped"}

\* C21: a constructed provider's isolation level is none for the configured
\* value none; bubblewrap for bubblewrap, with no probe of the host; for auto
\* or no value, bubblewrap exactly when the one probe found the tool; and
\* getIsolationLevel reports sandbox exactly for the level bubblewrap.
C21_IsolationResolution ==
    Built =>
        LET isolation == provider.options[1].isolation
            level == provider.isolationLevel[1]
        IN  /\ isolation = Some("none") => level = "none"
            /\ isolation = Some("bubblewrap")
                   => level = "bubblewrap" /\ provider.probes = 0
            /\ isolation \in {Undefined, Some("auto")}
                   => /\ provider.probes = 1
                      /\ level = "bubblewrap" <=> provider.bwrapOnHost
            /\ GetIsolationLevel = "sandbox" <=> level = "bubblewrap"

\* A provider configured bubblewrap on a host without the tool, and an
\* unconfigured one on a host with it.
C21_Witness ==
    /\ provider.state = "ready"
    /\ \/ /\ provider.options[1].isolation = Some("bubblewrap")
          /\ ~provider.bwrapOnHost
          /\ GetIsolationLevel = "sandbox"
       \/ /\ provider.options[1].isolation = Undefined
          /\ provider.bwrapOnHost
          /\ GetIsolationLevel = "sandbox"

\* The command and arguments a process was spawned with.
Invocation(process) == [command |-> process.command, args |-> process.args]

\* Every process spawned so far, by startInteractiveSession, executeCommand
\* or runScript, was spawned with what wrapWithBubblewrap makes of its shell
\* or command under the provider's isolation level.
SpawnedThroughWrapper ==
    /\ \A id \in DOMAIN pty :
          Invocation(pty[id]) = wrapWithBubblewrap(Shell(HostEnv), << >>, pty[id].cwd)
    /\ IF exec = << >> THEN TRUE
       ELSE IF exec[1].proc = << >> THEN TRUE
       ELSE Invocation(exec[1].proc[1])
              = wrapWithBubblewrap(exec[1].command, exec[1].args, exec[1].proc[1].cwd)

\* C22: once a provider is constructed, no step changes its isolation level,
\* probes the host again or changes what getIsolationLevel returns, and every
\* process spawned by executeCommand, runScript and startInteractiveSession
\* is spawned with the invocation wrapWithBubblewrap produces under that level.
C22_ResolvedOnce ==
    /\ [][Built => /\ provider'.isolationLevel = provider.isolationLevel
                   /\ provider'.probes = provider.probes
                   /\ GetIsolationLevel' = GetIsolationLevel]_vars
    /\ [](Built => SpawnedThroughWrapper)

\* A sandboxing provider with a session's shell and a command both spawned.
C22_Witness ==
    /\ Built
    /\ provider.isolationLevel = Some("bubblewrap")
    /\ \E id \in DOMAIN pty : pty[id].command = <<"bwrap">> /\ pty[id].args # << >>
    /\ exec # << >>
    /\ IF exec = << >> THEN FALSE
       ELSE /\ exec[1].proc # << >>
            /\ exec[1].method = "executeCommand"
            /\ exec[1].args # << >>

\* The number of confinement flags and flag values before the command.
FlagCount == 32

\* s[i..i+Len(t)-1] = t for some i <= last - Len(t) + 1
Contains(s, t, last) ==
    \E i \in 1..(last - Len(t) + 1) : SubSeq(s, i, i + Len(t) - 1) = t

\* What wrapWithBubblewrap made of command, args and cwd under the level none
\* is the command and arguments as given; under bubblewrap it is the command
\* bwrap with the confinement flags, among them --bind cwd cwd and
\* --chdir cwd, followed by the command and then its arguments.
IsWrappedInvocation(wrapped, command, args, cwd) ==
    IF provider.isolationLevel = Some("none")
    THEN wrapped = [command |-> command, args |-> args]
    ELSE /\ wrapped.command = <<"bwrap">>
         /\ Len(wrapped.args) = FlagCount + 1 + Len(args)
         /\ SubSeq(wrapped.args, FlagCount + 1, Len(wrapped.args))
               = <<command>> \o args
         /\ Contains(wrapped.args, << <<"--bind">>, cwd, cwd >>, FlagCount)
         /\ Contains(wrapped.args, << <<"--chdir">>, cwd >>, FlagCount)
         /\ \A i \in 1..FlagCount :
                wrapped.args[i] \in
                    {cwd} \cup {<<"--ro-bind">>, <<"--proc">>, <<"--dev">>,
                                <<"--tmpfs">>, <<"--bind">>, <<"--chdir">>,
                                <<"--unshare-all">>, <<"--share-net">>,
                                <<"--die-with-parent">>}
                           \cup {<<Sep, d>> : d \in {"usr", "lib", "lib64", "bin",
                                                     "sbin", "etc", "proc", "dev",
                                                     "tmp"}}

\* C23: for every command, argument list and working directory, the wrapped
\* invocation equals the command and arguments exactly under the level none;
\* under bubblewrap its command is bwrap and its arguments are the
\* confinement flags, with the working directory bound at its own path and
\* made the working directory, followed by the command and then its
\* arguments, unchanged and in order.
C23_WrappedInvocation ==
    IF exec = << >> THEN TRUE
    ELSE IF exec[1].proc = << >> THEN TRUE
    ELSE IsWrappedInvocation(Invocation(exec[1].proc[1]), exec[1].command,
                             exec[1].args, exec[1].proc[1].cwd)

\* A sandboxing provider has spawned the shell of a script, and a provider
\* without isolation a command with arguments.
C23_Witness ==
    /\ Built
    /\ IF exec = << >> THEN FALSE
       ELSE /\ exec[1].proc # << >>
            /\ \/ /\ provider.isolationLevel = Some("bubblewrap")
                  /\ exec[1].method = "runScript"
                  /\ Len(exec[1].proc[1].args) = FlagCount + 3
                  /\ exec[1].proc[1].cwd = <<Sep, "work", Sep, "sub">>
               \/ /\ provider.isolationLevel = Some("none")
                  /\ exec[1].method = "executeCommand"
                  /\ exec[1].proc[1].args = << <<"-l">>, <<"a">> >>

\* C24: when the constructor fails for a root directory that does not exist,
\* the host has not been probed, no isolation level is set, and no session,
\* process or command exists, then or at any later time.
C24_FailedConstruction ==
    provider.state = "failed" =>
        /\ provider.probes = 0
        /\ provider.isolationLevel = Undefined
        /\ nextId = 1
        /\ sessions = {}
        /\ DOMAIN pty = {}
        /\ DOMAIN heap = {}
        /\ exec = << >>

\* The constructor has failed with a configuration that asks for a probe.
C24_Witness ==
    /\ provider.state = "failed"
    /\ provider.options[1].isolation \in {Undefined, Some("auto")}
    /\ provider.bwrapOnHost

\* C25: once the owner has let go of the provider, the process of every
\* session in the map has received a kill signal or has exited.
C25_DropTerminatesSessions ==
    provider.state = "dropped" =>
        \A id \in sessions : pty[id].kills > 0 \/ pty[id].exited

\* C30: a step that writes to a session's process is a sendInput on a session
\* in the map, appends one input followed by one newline after everything
\* written before, and changes no buffer, no exit code and not the map.
C30_SendInputWrites ==
    [][\A id \in DOMAIN pty :
          (id \in DOMAIN pty' /\ pty'[id].written # pty[id].written) =>
              /\ id \in sessions
              /\ \E input \in Lines :
                    pty'[id].written = pty[id].written \o << input \o <<"\n">> >>
              /\ heap' = heap
              /\ sessions' = sessions
              /\ pty' = [pty EXCEPT ![id].written = pty'[id].written]]_vars

\* Two different lines were sent to a session that has output in its buffer.
C30_Witness ==
    \E id \in sessions :
        /\ pty[id].written = << <<"p", "\n">>, <<"l", "s", "\n">> >>
        /\ heap[id].outputBuffer # << >>

\* C28: when data is delivered for a session in the map whose exit callback
\* has run, the data is appended to outputBuffer, a collectOutput from the
\* old end of the buffer returns it, and the exit code stays as recorded.
C28_DataAfterExit ==
    [][\A id \in sessions :
          (pty[id].exited /\ id \in DOMAIN pty'
             /\ Len(pty'[id].delivered) = Len(pty[id].delivered) + 1) =>
              LET data == pty'[id].delivered[Len(pty'[id].delivered)]
                  before == heap[id].outputBuffer
              IN  /\ id \in sessions'
                  /\ heap'[id].outputBuffer = before \o data
                  /\ CollectOutput(heap'[id], Len(before)).output = data
                  /\ CollectOutput(heap'[id], 0).output = before \o data
                  /\ heap'[id].exitCode = heap[id].exitCode
                  /\ heap'[id].exitCode = pty[id].code
                  /\ CollectOutput(heap'[id], 0).isComplete]_vars

\* A session in the map holds data that came after its exit callback.
C28_Witness ==
    \E id \in sessions :
        /\ pty[id].late
        /\ heap[id].exitCode = Some(1)
        /\ heap[id].outputBuffer = Flatten(pty[id].delivered)
        /\ Len(heap[id].outputBuffer) = MaxData

\* The buffer values the session held: the concatenations of the first k
\* chunks delivered to it.
HeldBuffers(id) ==
    {Flatten(SubSeq(pty[id].delivered, 1, k)) : k \in 0..Len(pty[id].delivered)}

\* C29: whatever data arrived around the collectOutput calls in flight on a
\* session, each result with 0 <= fromPosition <= newPosition has an output
\* of length newPosition - fromPosition that is the range from fromPosition
\* to newPosition of one buffer value the session held.
C29_ResultsAreSnapshots ==
    marked # << >> =>
        \A i \in 1..Len(marked[1].results) :
            LET from == marked[1].results[i].from
                val == marked[1].results[i].val
            IN  (0 <= from /\ from <= val.newPosition) =>
                    /\ Len(val.output) = val.newPosition - from
                    /\ \E b \in HeldBuffers(marked[1].id) :
                          /\ Len(b) = val.newPosition
                          /\ val.output = SubSeq(b, from + 1, Len(b))

\* Two calls in flight with data between them and after them: the first saw
\* one chunk, the second two, from position 1.
C29_Witness ==
    /\ marked # << >>
    /\ IF marked = << >> THEN FALSE
       ELSE /\ Len(marked[1].results) = 2
            /\ marked[1].results[1].val.newPosition = 1
            /\ marked[1].results[2].from = 1
            /\ marked[1].results[2].val.output = <<"b">>
            /\ Len(pty[marked[1].id].delivered) = 2

\* p lies in the root directory of the filesystem provider, or is it.
Inside(p) ==
    LET names == Segments(Normal(p))
        root == Segments(FileSystemRoot)
    IN  Len(names) >= Len(root) /\ SubSeq(names, 1, Len(root)) = root

\* The files outside the root directory.
Outside(d) == [q \in {x \in DOMAIN d.files : ~Inside(x)} |-> d.files[q]]

\* C26: every path relativeOrAbsolutePathToAbsolutePath returned to a call
\* lies inside workingDirectory, and the files outside workingDirectory are
\* what they were before the first call.
C26_PathsConfined ==
    \A t \in DOMAIN tasks :
        /\ tasks[t].absoluteOldPath # << >> => Inside(tasks[t].absoluteOldPath)
        /\ tasks[t].absoluteNewPath # << >> => Inside(tasks[t].absoluteNewPath)
        /\ Outside(disk) = Outside(tasks[1].before)

\* What a disk holds at p: the content of the file, or the files and
\* directories below the directory, by their paths from p.
Held(d, p) ==
    LET n == Normal(p) IN
    [file |-> IF IsFile(d, n) THEN Some(d.files[n]) ELSE << >>,
     directory |-> IsDirectory(d, n),
     files |-> {<<SubSeq(q, Len(n) + 1, Len(q)), d.files[q]>> :
                   q \in {x \in DOMAIN d.files : Below(n, x)}},
     dirs |-> {SubSeq(q, Len(n) + 1, Len(q)) : q \in {x \in d.dirs : Below(n, x)}}]

\* Task t settles in this step.
Settles(t) ==
    /\ tasks'[t].pc \in {"returned", "threw"}
    /\ IF t \in DOMAIN tasks THEN tasks[t].pc \notin {"returned", "threw"} ELSE TRUE

\* C27: a rename whose oldPath does not exist or whose newPath exists when it
\* is called throws and leaves the disk as it was; a rename that returns
\* leaves nothing at oldPath, and at newPath what was at oldPath.
C27_Rename ==
    [][\A t \in DOMAIN tasks' :
          (tasks'[t].op = "rename" /\ Settles(t) /\ tasks'[t].error # "outside") =>
              LET call == tasks'[t]
                  old == call.absoluteOldPath
                  new == call.absoluteNewPath
              IN  /\ ~PathExists(call.before, old) =>
                         /\ call.pc = "threw"
                         /\ call.error = "does not exist"
                         /\ disk' = call.before
                  /\ PathExists(call.before, new) =>
                         /\ call.pc = "threw"
                         /\ call.error \in {"does not exist", "already exists"}
                         /\ disk' = call.before
                  /\ call.pc = "returned" =>
                         /\ ~PathExists(disk', old)
                         /\ PathExists(disk', new)
                         /\ Held(disk', new) = Held(call.before, old)]_vars

\* One rename was refused for a destination that exists, and the next moved
\* the file into a directory it had to make.
C27_Witness ==
    /\ Len(tasks) = 2
    /\ IF Len(tasks) < 2 THEN FALSE
       ELSE /\ tasks[1].op = "rename"
            /\ tasks[1].error = "already exists"
            /\ tasks[2].op = "rename"
            /\ tasks[2].pc = "returned"
            /\ Held(disk, tasks[2].absoluteNewPath).file = Some(<<"x">>)
            /\ ~PathExists(disk, tasks[2].absoluteOldPath)

\* C31: a collectOutput call on a session in the map does not throw whatever
\* fromPosition is; for a fromPosition greater than the length of the buffer
\* it returns the empty output and the length of the buffer as newPosition
\* (less than fromPosition); for a negative one it returns the whole buffer.
C31_FromPositionOutsideBuffer ==
    (Made("collectOutput") /\ ret[1].id \in sessions) =>
        LET buffer == heap[ret[1].id].outputBuffer
            from == ret[1].from
        IN  /\ ~ret[1].threw
            /\ ret[1].val # << >>
            /\ from > Len(buffer) =>
                   /\ ret[1].val[1].output = << >>
                   /\ ret[1].val[1].newPosition = Len(buffer)
                   /\ ret[1].val[1].newPosition < from
            /\ from < 0 =>
                   /\ ret[1].val[1].output = buffer
                   /\ ret[1].val[1].newPosition = Len(buffer)

\* A call from before the start of a buffer of two characters, and a call
\* from past the end of a buffer that is not empty.
C31_Witness ==
    /\ Made("collectOutput")
    /\ IF ret = << >> THEN FALSE
       ELSE /\ ret[1].id \in sessions
            /\ \/ /\ ret[1].from < 0
                  /\ ret[1].val[1].output = <<"a", "b">>
               \/ /\ ret[1].from > Len(heap[ret[1].id].outputBuffer)
                  /\ heap[ret[1].id].outputBuffer # << >>
                  /\ ret[1].val[1].output = << >>

\* The ids of the startInteractiveSession calls that wait or have returned.
Started == pending \o returned

\* C32: the startInteractiveSession calls in flight and those that have
\* returned all have different ids; a call's session is in the map, under
\* the call's id, when its wait begins; every id names the session object
\* made for it; and every id in the map has a number below nextId.
C32_ConcurrentStarts ==
    /\ [](\A i, j \in 1..Len(Started) : i # j => Started[i] # Started[j])
    /\ [](\A i \in 1..Len(Started) :
             /\ Started[i] \in DOMAIN heap
             /\ heap[Started[i]].id = Started[i])
    /\ [](\A id \in sessions : IsTermId(id) /\ IdNumber(id) < nextId)
    /\ [][Len(pending') > Len(pending) =>
             /\ pending'[Len(pending')] \in sessions'
             /\ pending'[Len(pending')] \notin sessions]_vars

\* Two calls wait at once, both sessions in the map.
C32_Witness ==
    /\ Len(pending) = 2
    /\ \A i \in 1..Len(pending) : pending[i] \in sessions
    /\ nextId = 3

\* terminateSession has signalled the process of id and removed id from the map.
Removed(id) == id \in DOMAIN heap /\ id \notin sessions /\ pty[id].kills > 0

\* C33: once terminateSession has removed a session, no step puts its id back
\* into the map: getSessionStatus keeps returning null for it and
\* collectOutput keeps throwing; and a callback of its process changes
\* neither the map nor any other session or process.
C33_RemovedStaysRemoved ==
    [][\A id \in DOMAIN heap :
          Removed(id) =>
              /\ id \notin sessions'
              /\ GetSessionStatus(id)' = Null
              /\ collectOutputCall(id, 0)'[1].threw
              /\ pty'[id] # pty[id] =>
                     /\ sessions' = sessions
                     /\ \A other \in DOMAIN heap \ {id} :
                            heap'[other] = heap[other] /\ pty'[other] = pty[other]]_vars

\* Data arrived for a terminated session whose process has exited, while
\* another session is in the map.
C33_Witness ==
    /\ marked # << >>
    /\ IF marked = << >> THEN FALSE
       ELSE /\ marked[1].callback = "onData"
            /\ Removed(marked[1].id)
            /\ heap[marked[1].id].exitCode # Undefined
            /\ heap[marked[1].id].outputBuffer # << >>
            /\ \E other \in sessions : heap[other].outputBuffer = << >>

\* The ids the counter has passed for which no session was made.
Skipped == {TermId(n) : n \in 1..(nextId - 1)} \ DOMAIN heap

\* C34: a startInteractiveSession call whose pty.spawn throws rejects, adds
\* no session, process or waiting call, and has advanced nextId past its id;
\* and an id passed without a session is never given to a session later.
C34_FailedStartSkipsId ==
    /\ []((Made("startInteractiveSession") /\ ret[1].threw) =>
             /\ ret[1].id \notin sessions
             /\ ret[1].id \notin DOMAIN heap
             /\ ret[1].id \notin DOMAIN pty
             /\ \A i \in 1..Len(Started) : Started[i] # ret[1].id
             /\ IdNumber(ret[1].id) = nextId - 1)
    /\ [][\A id \in Skipped : id \notin DOMAIN heap' /\ id \notin sessions']_vars

\* The first start failed and the second made the session term-2.
C34_Witness ==
    /\ TermId(1) \in Skipped
    /\ sessions = {TermId(2)}
    /\ returned = <<TermId(2)>>
    /\ nextId = 3

\* C35: the environment of a session's process has TERM = dumb and
\* NO_COLOR = 1 whatever the caller and the host set; every other variable
\* has the caller's value when the caller sets it and the inherited value
\* otherwise; and there are no other variables.
C35_SessionEnv ==
    \A id \in DOMAIN pty :
        LET env == pty[id].env
            caller == pty[id].callerEnv
            inherited == pty[id].processEnv
        IN  /\ DOMAIN env = DOMAIN caller \cup DOMAIN inherited \cup DOMAIN Forced
            /\ \A k \in DOMAIN env :
                   env[k] = IF k \in DOMAIN Forced THEN Forced[k]
                            ELSE IF k \in DOMAIN caller THEN caller[k]
                            ELSE inherited[k]

\* A session whose caller set TERM, NO_COLOR and FOO on a host that sets them
\* too: FOO is the caller's, TERM and NO_COLOR are the forced values.
C35_Witness ==
    \E id \in sessions :
        /\ pty[id].callerEnv = [TERM |-> "xterm", NO_COLOR |-> "0", FOO |-> "caller"]
        /\ pty[id].processEnv = [PATH |-> "/bin", FOO |-> "host", TERM |-> "vt100",
                                 NO_COLOR |-> "host"]
        /\ pty[id].env = [PATH |-> "/bin", FOO |-> "caller", TERM |-> "dumb",
                          NO_COLOR |-> "1"]

\* C36: a rename that succeeds found its destination absent at the moment
\* of the move, whatever other rename, writeFile or copy calls are in flight.
C36_RenameNeverOverwrites ==
    [][\A t \in DOMAIN tasks :
          (/\ tasks[t].op = "rename"
           /\ tasks[t].pc = "move"
           /\ tasks'[t].pc = "returned")
          => ~PathExists(disk, tasks[t].absoluteNewPath)]_vars

====
